---- MODULE Spec2Model ----
(***************************************************************************)
(* cfctl: login / session and two-tier configuration core.                 *)
(*                                                                         *)
(* Text is modelled as sequences of ASCII codes, so that Split, HasSuffix, *)
(* ToLower, Contains, base64 and the stream cipher are computed the way    *)
(* the Go code computes them.                                              *)
(***************************************************************************)
EXTENDS Integers, Sequences, FiniteSets, TLC

(***************************************************************************)
(* Text helpers (package strings)                                          *)
(***************************************************************************)

\* index of the first occurrence of byte c in s at or after position i, 0 if none
RECURSIVE IndexFrom(_, _, _)
IndexFrom(s, c, i) ==
    IF i > Len(s) THEN 0
    ELSE IF s[i] = c THEN i
    ELSE IndexFrom(s, c, i + 1)

\* strings.Split(s, sep) for a one-byte separator: n separators give n+1 parts
RECURSIVE Split(_, _)
Split(s, c) ==
    LET i == IndexFrom(s, c, 1)
    IN  IF i = 0 THEN << s >>
        ELSE << SubSeq(s, 1, i - 1) >> \o Split(SubSeq(s, i + 1, Len(s)), c)

\* strings.HasSuffix
HasSuffix(s, suffix) ==
    /\ Len(s) >= Len(suffix)
    /\ SubSeq(s, Len(s) - Len(suffix) + 1, Len(s)) = suffix

\* strings.HasPrefix
HasPrefix(s, prefix) ==
    /\ Len(s) >= Len(prefix)
    /\ SubSeq(s, 1, Len(prefix)) = prefix

\* strings.ToLower on ASCII text: 'A'..'Z' (65..90) move to 'a'..'z'
ToLower(s) ==
    [i \in 1..Len(s) |-> IF s[i] >= 65 /\ s[i] <= 90 THEN s[i] + 32 ELSE s[i]]

\* strings.Contains: the empty substring is contained in every string
Contains(s, sub) ==
    \E i \in 1..(Len(s) - Len(sub) + 1) : SubSeq(s, i, i + Len(sub) - 1) = sub

(***************************************************************************)
(* encoding/base64.  alphabet "std" is StdEncoding ('+', '/'), "url" is    *)
(* URLEncoding ('-', '_'); padded = FALSE is the Raw (unpadded) variant.   *)
(***************************************************************************)

Err == [ok |-> FALSE]
Ok(v) == [ok |-> TRUE, val |-> v]

B64Char(alphabet, n) ==
    IF n < 26 THEN 65 + n
    ELSE IF n < 52 THEN 97 + (n - 26)
    ELSE IF n < 62 THEN 48 + (n - 52)
    ELSE IF n = 62 THEN (IF alphabet = "std" THEN 43 ELSE 45)
    ELSE (IF alphabet = "std" THEN 47 ELSE 95)

\* the 6-bit value of a character, -1 for a character outside the alphabet
B64Index(alphabet, c) ==
    IF c >= 65 /\ c <= 90 THEN c - 65
    ELSE IF c >= 97 /\ c <= 122 THEN c - 97 + 26
    ELSE IF c >= 48 /\ c <= 57 THEN c - 48 + 52
    ELSE IF c = (IF alphabet = "std" THEN 43 ELSE 45) THEN 62
    ELSE IF c = (IF alphabet = "std" THEN 47 ELSE 95) THEN 63
    ELSE -1

RECURSIVE B64Encode(_, _, _)
B64Encode(alphabet, padded, b) ==
    LET n == Len(b)
        ch(x) == B64Char(alphabet, x)
        pad == IF padded THEN << 61 >> ELSE << >>
    IN  IF n = 0 THEN << >>
        ELSE IF n = 1 THEN
            << ch(b[1] \div 4), ch((b[1] % 4) * 16) >> \o pad \o pad
        ELSE IF n = 2 THEN
            << ch(b[1] \div 4), ch((b[1] % 4) * 16 + (b[2] \div 16)),
               ch((b[2] % 16) * 4) >> \o pad
        ELSE
            << ch(b[1] \div 4), ch((b[1] % 4) * 16 + (b[2] \div 16)),
               ch((b[2] % 16) * 4 + (b[3] \div 64)), ch(b[3] % 64) >>
            \o B64Encode(alphabet, padded, SubSeq(b, 4, n))

\* bytes of a sequence of 6-bit values whose length is not 1 modulo 4
RECURSIVE B64Quanta(_)
B64Quanta(v) ==
    LET n == Len(v)
    IN  IF n = 0 THEN << >>
        ELSE IF n = 2 THEN << v[1] * 4 + (v[2] \div 16) >>
        ELSE IF n = 3 THEN
            << v[1] * 4 + (v[2] \div 16), (v[2] % 16) * 16 + (v[3] \div 4) >>
        ELSE
            << v[1] * 4 + (v[2] \div 16), (v[2] % 16) * 16 + (v[3] \div 4),
               (v[3] % 4) * 64 + v[4] >>
            \o B64Quanta(SubSeq(v, 5, n))

\* DecodeString: Err on a bad length, bad padding or a character outside
\* the alphabet
B64Decode(alphabet, padded, t) ==
    LET n == Len(t)
        npad == IF ~padded \/ n = 0 \/ t[n] # 61 THEN 0
                ELSE IF n >= 2 /\ t[n - 1] = 61 THEN 2 ELSE 1
        body == SubSeq(t, 1, n - npad)
        vals == [i \in 1..Len(body) |-> B64Index(alphabet, body[i])]
    IN  IF padded /\ n % 4 # 0 THEN Err
        ELSE IF \E i \in 1..Len(body) : vals[i] < 0 THEN Err
        ELSE IF Len(body) % 4 = 1 THEN Err
        ELSE IF padded /\ npad # (4 - (Len(body) % 4)) % 4 THEN Err
        ELSE Ok(B64Quanta(vals))

(***************************************************************************)
(* crypto/aes + crypto/cipher (CFB), used by encrypt and decrypt.          *)
(***************************************************************************)

\* aes.BlockSize
BlockSize == 16

RECURSIVE Xor(_, _)
Xor(a, b) ==
    IF a = 0 THEN b
    ELSE IF b = 0 THEN a
    ELSE ((a + b) % 2) + 2 * Xor(a \div 2, b \div 2)

RECURSIVE SumBytes(_)
SumBytes(s) == IF Len(s) = 0 THEN 0 ELSE s[1] + SumBytes(Tail(s))

\* aes.NewCipher accepts keys of 16, 24 or 32 bytes only
ValidKeySize(key) == Len(key) \in {16, 24, 32}

\* The block cipher E_key(block): a keyed function of the whole key and the
\* whole input block (the AES rounds themselves are outside this repository).
AesBlock(key, block) ==
    [i \in 1..BlockSize |->
        (SumBytes(key) * 7 + SumBytes(block) * 13
         + key[((i - 1) % Len(key)) + 1] * 5 + block[i] * 3 + i * 17) % 256]

\* cipher.NewCFBEncrypter / NewCFBDecrypter + XORKeyStream: the key stream of
\* each block is E_key(previous ciphertext block), the first one E_key(iv)
RECURSIVE CFBStream(_, _, _, _)
CFBStream(key, prev, data, decrypting) ==
    LET n == IF Len(data) < BlockSize THEN Len(data) ELSE BlockSize
        ks == AesBlock(key, prev)
        out == [i \in 1..n |-> Xor(data[i], ks[i])]
        cipherBlock == IF decrypting THEN SubSeq(data, 1, n) ELSE out
    IN  IF Len(data) = 0 THEN << >>
        ELSE IF n < BlockSize THEN out
        ELSE out \o CFBStream(key, cipherBlock, SubSeq(data, n + 1, Len(data)),
                              decrypting)

(***************************************************************************)
(* Text constants of the program and the bounded input sets                *)
(***************************************************************************)

AppSuffix == << 45, 97, 112, 112 >>                      \* "-app"
Dash == 45                                               \* '-'
Dot == 46                                                \* '.'
Identity == << 105, 100, 101, 110, 116, 105, 116, 121 >> \* "identity"

EnvProd == << 112, 114, 111, 100 >>                                          \* "prod"
EnvDevUser == << 100, 101, 118, 45, 117, 115, 101, 114 >>                    \* "dev-user"
EnvDevAcmeUser == << 100, 101, 118, 45, 97, 99, 109, 101, 45, 117, 115, 101, 114 >>  \* "dev-acme-user"
EnvFourUser == << 97, 45, 98, 99, 45, 100, 45, 117, 115, 101, 114 >>         \* "a-bc-d-user"
EnvDevAcmeApp == << 100, 101, 118, 45, 97, 99, 109, 101, 45, 97, 112, 112 >> \* "dev-acme-app"
Acme == << 97, 99, 109, 101 >>                                               \* "acme"

EnvNames == {EnvProd, EnvDevUser, EnvDevAcmeUser, EnvFourUser, EnvDevAcmeApp}

Alice == << 97, 108, 105, 99, 101 >>   \* "alice"
Bob == << 66, 111, 98 >>               \* "Bob"
UserIDs == {Alice, Bob}

Pw1 == << 112, 119, 49 >>              \* "pw1"
Pw2 == << 80, 119, 50 >>               \* "Pw2"
Passwords == {Pw1, Pw2}

TokA == << 116, 111, 107, 65 >>        \* "tokA"
TokB == << 116, 111, 107, 66 >>        \* "tokB"
AppTokens == {TokA, TokB}

EpIdentity == << 103, 114, 112, 99, 58, 47, 47, 105, 100, 101, 110, 116, 105, 116, 121, 46, 120 >>  \* "grpc://identity.x"
EpInventory == << 103, 114, 112, 99, 58, 47, 47, 105, 110, 118, 101, 110, 116, 111, 114, 121, 46, 120 >> \* "grpc://inventory.x"

\* two 256-bit keys the CSPRNG may produce, and two initialization vectors
Key1 == [i \in 1..32 |-> (i * 7 + 3) % 256]
Key2 == [i \in 1..32 |-> (i * 11 + 90) % 256]
IV1 == [i \in 1..BlockSize |-> (i * 29) % 256]
IV2 == [i \in 1..BlockSize |-> (255 - i * 3) % 256]
IVs == {IV1, IV2}

(***************************************************************************)
(* strconv / encoding/json, as far as the token payload needs them         *)
(***************************************************************************)

IsDigit(c) == c >= 48 /\ c <= 57

\* strconv.Atoi on a non-empty string of digits
RECURSIVE Atoi(_)
Atoi(d) ==
    IF Len(d) = 0 THEN 0
    ELSE Atoi(SubSeq(d, 1, Len(d) - 1)) * 10 + (d[Len(d)] - 48)

RECURSIVE Itoa(_)
Itoa(n) == IF n < 10 THEN << 48 + n >> ELSE Itoa(n \div 10) \o << 48 + (n % 10) >>

ExpPrefix == << 123, 34, 101, 120, 112, 34, 58 >>   \* {"exp":

\* json.Unmarshal into map[string]interface{}, for the payload forms
\* {}, {"exp":<digits>} and {"exp":"<text>"}; anything else is a syntax error.
\* The result tells whether claims["exp"] holds a number (float64).
Unmarshal(payload) ==
    LET n == Len(payload)
        mid == SubSeq(payload, Len(ExpPrefix) + 1, n - 1)
    IN  IF payload = << 123, 125 >> THEN Ok([expIsNumber |-> FALSE, exp |-> 0])
        ELSE IF n > Len(ExpPrefix) + 1 /\ HasPrefix(payload, ExpPrefix) /\ payload[n] = 125
        THEN IF \A i \in 1..Len(mid) : IsDigit(mid[i])
             THEN Ok([expIsNumber |-> TRUE, exp |-> Atoi(mid)])
             ELSE IF Len(mid) >= 2 /\ mid[1] = 34 /\ mid[Len(mid)] = 34
             THEN Ok([expIsNumber |-> FALSE, exp |-> 0])
             ELSE Err
        ELSE Err

\* a session token header.payload.signature whose payload is {"exp":exp}
TokenWithExp(exp) ==
    << 104 >> \o << Dot >>
    \o B64Encode("url", FALSE, ExpPrefix \o Itoa(exp) \o << 125 >>)
    \o << Dot >> \o << 115 >>

\* mutant of isTokenExpired: a token without three segments counts as valid
isTokenExpiredLenient(token, clock) ==
    LET parts == Split(token, Dot)
        payload == B64Decode("url", FALSE, parts[2])
        claims == Unmarshal(payload.val)
    IN  IF Len(parts) # 3 THEN FALSE
        ELSE IF ~payload.ok THEN TRUE
        ELSE IF ~claims.ok THEN TRUE
        ELSE IF ~claims.val.expIsNumber THEN TRUE
        ELSE clock > claims.val.exp

\* mutant of isTokenExpired: a token counts as expired from exp on
isTokenExpiredAtExp(token, clock) ==
    LET parts == Split(token, Dot)
        payload == B64Decode("url", FALSE, parts[2])
        claims == Unmarshal(payload.val)
    IN  IF Len(parts) # 3 THEN TRUE
        ELSE IF ~payload.ok THEN TRUE
        ELSE IF ~claims.ok THEN TRUE
        ELSE IF ~claims.val.expIsNumber THEN TRUE
        ELSE clock >= claims.val.exp

\* isTokenExpired: malformed tokens count as expired; otherwise
\* time.Now().After(time.Unix(exp, 0)), the clock counted in whole seconds
isTokenExpired(token, clock) ==
    LET parts == Split(token, Dot)
        payload == B64Decode("url", FALSE, parts[2])
        claims == Unmarshal(payload.val)
    IN  IF Len(parts) # 3 THEN TRUE
        ELSE IF ~payload.ok THEN TRUE
        ELSE IF ~claims.ok THEN TRUE
        ELSE IF ~claims.val.expIsNumber THEN TRUE
        ELSE clock > claims.val.exp

(***************************************************************************)
(* Credential vault: getEncryptionKey, encrypt, decrypt                    *)
(*                                                                         *)
(* The OS key store is [found, val]: val is the stored string.  The        *)
(* outcome of this call's key-store access and CSPRNG is the record        *)
(* rnd = [access, newKey, setOk, iv].                                      *)
(***************************************************************************)

NoKey == [found |-> FALSE, val |-> << >>]
StoredKey(key) == [found |-> TRUE, val |-> B64Encode("std", TRUE, key)]

\* mutant of getEncryptionKey: the new key is returned without being stored
getEncryptionKeyUnstored(kr, rnd) ==
    IF rnd.access = "error" THEN [ok |-> FALSE, key |-> << >>, kr |-> kr]
    ELSE IF ~kr.found THEN [ok |-> TRUE, key |-> rnd.newKey, kr |-> kr]
    ELSE LET d == B64Decode("std", TRUE, kr.val)
         IN  IF d.ok THEN [ok |-> TRUE, key |-> d.val, kr |-> kr]
             ELSE [ok |-> FALSE, key |-> << >>, kr |-> kr]

\* returns [ok, key, kr]: the key (when ok) and the key store afterwards
getEncryptionKey(kr, rnd) ==
    IF rnd.access = "error" THEN [ok |-> FALSE, key |-> << >>, kr |-> kr]
    ELSE IF ~kr.found THEN
        IF rnd.setOk
        THEN [ok |-> TRUE, key |-> rnd.newKey, kr |-> StoredKey(rnd.newKey)]
        ELSE [ok |-> FALSE, key |-> << >>, kr |-> kr]
    ELSE LET d == B64Decode("std", TRUE, kr.val)
         IN  IF d.ok THEN [ok |-> TRUE, key |-> d.val, kr |-> kr]
             ELSE [ok |-> FALSE, key |-> << >>, kr |-> kr]

\* returns [ok, val, kr]: val is the printable ciphertext
encrypt(text, kr, rnd) ==
    LET k == getEncryptionKey(kr, rnd)
    IN  IF ~k.ok THEN [ok |-> FALSE, val |-> << >>, kr |-> k.kr]
        ELSE IF ~ValidKeySize(k.key) THEN [ok |-> FALSE, val |-> << >>, kr |-> k.kr]
        ELSE [ok |-> TRUE,
              val |-> B64Encode("url", TRUE,
                          rnd.iv \o CFBStream(k.key, rnd.iv, text, FALSE)),
              kr |-> k.kr]

\* mutant of decrypt: the key stream is chained on the output blocks, as the
\* encrypter chains it, instead of on the ciphertext blocks
decryptChainedOnOutput(cryptoText, kr, rnd) ==
    LET k == getEncryptionKey(kr, rnd)
        c == B64Decode("url", TRUE, cryptoText)
    IN  IF ~k.ok THEN [ok |-> FALSE, val |-> << >>, kr |-> k.kr]
        ELSE IF ~c.ok THEN [ok |-> FALSE, val |-> << >>, kr |-> k.kr]
        ELSE IF ~ValidKeySize(k.key) THEN [ok |-> FALSE, val |-> << >>, kr |-> k.kr]
        ELSE IF Len(c.val) < BlockSize THEN [ok |-> FALSE, val |-> << >>, kr |-> k.kr]
        ELSE [ok |-> TRUE,
              val |-> CFBStream(k.key, SubSeq(c.val, 1, BlockSize),
                                SubSeq(c.val, BlockSize + 1, Len(c.val)), FALSE),
              kr |-> k.kr]

\* returns [ok, val, kr]: val is the decrypted text
decrypt(cryptoText, kr, rnd) ==
    LET k == getEncryptionKey(kr, rnd)
        c == B64Decode("url", TRUE, cryptoText)
    IN  IF ~k.ok THEN [ok |-> FALSE, val |-> << >>, kr |-> k.kr]
        ELSE IF ~c.ok THEN [ok |-> FALSE, val |-> << >>, kr |-> k.kr]
        ELSE IF ~ValidKeySize(k.key) THEN [ok |-> FALSE, val |-> << >>, kr |-> k.kr]
        ELSE IF Len(c.val) < BlockSize THEN [ok |-> FALSE, val |-> << >>, kr |-> k.kr]
        ELSE [ok |-> TRUE,
              val |-> CFBStream(k.key, SubSeq(c.val, 1, BlockSize),
                                SubSeq(c.val, BlockSize + 1, Len(c.val)), TRUE),
              kr |-> k.kr]

(***************************************************************************)
(* Bounds and inputs of the login model                                    *)
(***************************************************************************)

\* number of login runs (process invocations) in one behaviour
MaxRuns == 2

\* the clock (seconds) of the first run, and how far it may advance between runs
Clock0 == 1000000
ClockSteps == {3600}

\* reqMsg "timeout" of grantToken: the lifetime of the granted token
GrantTimeout == 86400

\* page sizes of the user-list and of the workspace selector
PageSizeUsers == 10
PageSizeWorkspaces == 15

Roles == {"DOMAIN_ADMIN", "WORKSPACE_OWNER", "WORKSPACE_MEMBER", "SYSTEM_ADMIN"}

WsA == [workspace_id |-> "ws-a", name |-> << 68, 101, 118 >>]          \* "Dev"
WsZero == [workspace_id |-> "0", name |-> << 111, 112, 115 >>]         \* "ops"
WsLists == {<< >>, << WsA >>, << WsA, WsZero >>}

AccessTok == << 97, 116 >>    \* "at"
RefreshTok == << 114, 116 >>  \* "rt"
DomainIdOf(name) == << 68, 58 >> \o name   \* the server's id of domain `name`

\* key events of github.com/eiannone/keyboard: a special key or a character
KeyEv(k) == [key |-> k, char |-> 0]
CharEv(c) == [key |-> "", char |-> c]
NavKeys == {KeyEv("Enter"), CharEv(106), CharEv(107), CharEv(108), CharEv(104),
            CharEv(113)}   \* Enter j k l h q

User(id, pw, tok) == [userid |-> id, password |-> pw, token |-> tok]

\* outcomes of the key store and the CSPRNG during one vault call
Rnd == [access : {"ok", "error"}, newKey : {Key2}, setOk : BOOLEAN, iv : IVs]
RndOk == [access |-> "ok", newKey |-> Key2, setOk |-> TRUE, iv |-> IV1]

(***************************************************************************)
(* State                                                                   *)
(***************************************************************************)
VARIABLES
    appFile,    \* ~/.cfctl/config.yaml: [status, environment, envs]
    cacheFile,  \* ~/.cfctl/cache/config.yaml: [status, envs]
    keyring,    \* the OS key store entry cfctl-credentials / encryption-key
    now,        \* wall clock, seconds
    runs,       \* number of login processes started
    pc,         \* position of the running login process
    exitCode,   \* -1 while running, else the process exit status
    failure,    \* the last error the run reported, "none" if none
    L,          \* local variables of executeLogin / executeUserLogin
    sel,        \* local variables of the running selector
    kbd,        \* keyboard.Open calls not yet matched by keyboard.Close
    rpcLog,     \* remote calls made by this run, in order
    srv,        \* the authenticated account at the identity service
    start       \* the two files as they were when this run started

vars == << appFile, cacheFile, keyring, now, runs, pc, exitCode, failure, L, sel,
           kbd, rpcLog, srv, start >>

NoEnvApp == [endpoint |-> << >>, proxy |-> FALSE, token |-> << >>, tokens |-> << >>]
NoEnvCache == [endpoint |-> << >>, token |-> << >>, users |-> << >>]

L0 == [currentEnv |-> << >>, providedUrl |-> << >>, token |-> << >>,
       users |-> << >>, userSelection |-> 0,
       userID |-> << >>, password |-> << >>, pwPrompts |-> 0, credPrompts |-> 0,
       domainID |-> << >>, accessToken |-> << >>, refreshToken |-> << >>,
       encryptedPassword |-> << >>, workspaces |-> << >>, roleType |-> "",
       scope |-> "", workspaceID |-> "", domainChosen |-> FALSE,
       newAccessToken |-> << >>, enteredToken |-> << >>, wsError |-> FALSE]

Sel0 == [selectedIndex |-> 0, currentPage |-> 0, searchMode |-> FALSE,
         searchTerm |-> << >>, inputBuffer |-> << >>]

NoAccount == [role |-> "", workspaces |-> << >>]

\* cached users the program wrote in earlier runs, under Key1
FreshTok == TokenWithExp(Clock0 + 3600)
ExpiredTok == TokenWithExp(Clock0 - 1)
MalformedTok == << 104, Dot, 115 >>     \* "h.s": two segments
CipherOf(pw, iv) == encrypt(pw, StoredKey(Key1), [RndOk EXCEPT !.iv = iv]).val
InitUserLists ==
    { << >>,
      << User(Alice, CipherOf(Pw1, IV1), FreshTok) >>,
      << User(Bob, CipherOf(Pw2, IV2), ExpiredTok),
         User(Alice, CipherOf(Pw1, IV1), FreshTok) >>,
      << User(Bob, CipherOf(Pw2, IV2), MalformedTok) >> }

\* endpoint settings of the current environment in the two tiers
InitEndpoints ==
    { [app |-> EpIdentity, proxy |-> FALSE, cache |-> << >>],
      [app |-> << >>, proxy |-> TRUE, cache |-> EpInventory],
      [app |-> EpInventory, proxy |-> FALSE, cache |-> << >>],
      [app |-> << >>, proxy |-> FALSE, cache |-> << >>] }

\* values of the --url flag: not given, or given
UrlFlags == {<< >>, EpInventory}

\* the password the identity service holds for each user
ServerPassword(userID) == IF userID = Alice THEN Pw1 ELSE Pw2

IsAppEnv(e) == HasSuffix(e, AppSuffix)

InitFiles(env, ep, users, tokens, cacheStatus) ==
    /\ appFile = [status |-> "ok", environment |-> env,
                  envs |-> [e \in EnvNames |->
                      IF e = env
                      THEN [endpoint |-> ep.app, proxy |-> ep.proxy,
                            token |-> << >>, tokens |-> tokens]
                      ELSE NoEnvApp]]
    /\ cacheFile = [status |-> cacheStatus,
                    envs |-> [e \in EnvNames |->
                      IF cacheStatus # "ok" THEN NoEnvCache
                      ELSE IF e = env /\ ~IsAppEnv(e)
                      THEN [NoEnvCache EXCEPT !.endpoint = ep.cache, !.users = users]
                      ELSE IF e = EnvProd
                      THEN [NoEnvCache EXCEPT
                              !.users = << User(Bob, CipherOf(Pw2, IV2), FreshTok) >>]
                      ELSE NoEnvCache]]

\* the current environment with endpoint and token set, differently, in both
\* tiers
InitBothTiers(env) ==
    /\ appFile = [status |-> "ok", environment |-> env,
                  envs |-> [e \in EnvNames |->
                      IF e = env
                      THEN [endpoint |-> EpIdentity, proxy |-> FALSE,
                            token |-> TokA, tokens |-> << >>]
                      ELSE NoEnvApp]]
    /\ cacheFile = [status |-> "ok",
                    envs |-> [e \in EnvNames |->
                      IF e = env
                      THEN [endpoint |-> EpInventory, token |-> TokB, users |-> << >>]
                      ELSE NoEnvCache]]

\* The initial files: the main case (a user environment with its endpoint in
\* the application tier) with every cached-user list and key-store state, and
\* one variation at a time of the environment name, the endpoint settings,
\* the cache file and the application-tier file.
EpMain == [app |-> EpIdentity, proxy |-> FALSE, cache |-> << >>]

Init ==
    /\ \/ \E users \in InitUserLists :
             /\ InitFiles(EnvDevAcmeUser, EpMain, users, << >>, "ok")
             /\ keyring \in {StoredKey(Key1), NoKey}
       \/ \E env \in {EnvProd, EnvDevUser, EnvFourUser},
             users \in {u \in InitUserLists : Len(u) <= 1 /\ MalformedTok \notin
                                                  {u[i].token : i \in 1..Len(u)}} :
             /\ InitFiles(env, EpMain, users, << >>, "ok")
             /\ keyring = StoredKey(Key1)
       \/ \E ep \in InitEndpoints \ {EpMain} :
             /\ InitFiles(EnvDevAcmeUser, ep, << >>, << >>, "ok")
             /\ keyring = StoredKey(Key1)
       \/ \E cs \in {"missing", "malformed"} :
             /\ InitFiles(EnvDevAcmeUser, EpMain, << >>, << >>, cs)
             /\ keyring \in {StoredKey(Key1), NoKey}
       \/ \E tokens \in {<< >>, << TokA >>} :
             /\ InitFiles(EnvDevAcmeApp, EpMain, << >>, tokens, "ok")
             /\ keyring = NoKey
       \/ /\ InitBothTiers(EnvDevAcmeUser)
          /\ keyring = StoredKey(Key1)
       \/ \E st \in {"ok", "missing", "malformed"} :
             /\ appFile = [status |-> st, environment |-> << >>,
                           envs |-> [e \in EnvNames |-> NoEnvApp]]
             /\ cacheFile = [status |-> "missing",
                             envs |-> [e \in EnvNames |-> NoEnvCache]]
             /\ keyring = NoKey
    /\ now = Clock0
    /\ runs = 1
    /\ pc = "executeLogin"
    /\ exitCode = -1
    /\ failure = "none"
    /\ L \in {[L0 EXCEPT !.providedUrl = u] : u \in UrlFlags}
    /\ sel = Sel0
    /\ kbd = 0
    /\ rpcLog = << >>
    /\ srv = NoAccount
    /\ start = [app |-> appFile, cache |-> cacheFile]

Persistent == << appFile, cacheFile, keyring, now, runs >>

\* os.Exit(code), or a return from the command, after reporting `reason`
Exit(code, reason) ==
    /\ pc' = "exited"
    /\ exitCode' = code
    /\ failure' = reason

(***************************************************************************)
(* executeLogin (login.go 72-103)                                          *)
(***************************************************************************)
executeLogin ==
    /\ pc = "executeLogin"
    /\ IF appFile.status # "ok"
       THEN Exit(0, "ConfigUnreadable") /\ UNCHANGED L
       ELSE IF appFile.environment = << >>
       THEN Exit(0, "NoEnvironment") /\ UNCHANGED L
       ELSE /\ L' = [L EXCEPT !.currentEnv = appFile.environment]
            /\ pc' = IF HasSuffix(appFile.environment, AppSuffix)
                     THEN "executeAppLogin" ELSE "loadEnvironmentConfig"
            /\ UNCHANGED << exitCode, failure >>
    /\ UNCHANGED << Persistent, sel, kbd, rpcLog, srv, start >>

(***************************************************************************)
(* executeAppLogin / promptToken / saveAppToken (login.go 110-184, 253-267)*)
(***************************************************************************)

\* mutant of AppendToken: the existence check is dropped
AppendTokenAlways(tokens, token) == Append(tokens, token)

\* the tokens list after saveAppToken's update (login.go 155-169)
AppendToken(tokens, token) ==
    IF \E i \in 1..Len(tokens) : tokens[i] = token
    THEN tokens
    ELSE Append(tokens, token)

\* the app-tier file after saveAppToken(currentEnv, token)
saveAppToken(file, currentEnv, token) ==
    [file EXCEPT !.envs[currentEnv].tokens = AppendToken(@, token)]

executeAppLogin ==
    /\ pc = "executeAppLogin"
    /\ \/ \* promptToken fails (interrupt)
          /\ Exit(0, "PromptToken")
          /\ UNCHANGED << appFile, L >>
       \/ \E token \in AppTokens, writeOk \in BOOLEAN :
             /\ L' = [L EXCEPT !.enteredToken = token]
             /\ IF writeOk
                THEN /\ appFile' = saveAppToken(appFile, L.currentEnv, token)
                     /\ Exit(0, "none")
                ELSE /\ Exit(0, "SaveAppToken")
                     /\ UNCHANGED appFile
    /\ UNCHANGED << cacheFile, keyring, now, runs, sel, kbd, rpcLog, srv, start >>

(***************************************************************************)
(* loadEnvironmentConfig (login.go 835-900)                                *)
(***************************************************************************)

\* getBaseURL (config.go 625-649) on the two files: the application tier's
\* endpoint, else the cache tier's; loadConfig fails on a malformed cache file
\* and creates a missing one empty
getBaseURL(app, cache) ==
    IF app.environment = << >> THEN Err
    ELSE IF app.envs[app.environment].endpoint # << >>
    THEN Ok(app.envs[app.environment].endpoint)
    ELSE IF cache.status # "ok" THEN Err
    ELSE IF cache.envs[app.environment].endpoint = << >> THEN Err
    ELSE Ok(cache.envs[app.environment].endpoint)

\* getToken (config.go 652-676), likewise for the token
getToken(app, cache) ==
    IF app.environment = << >> THEN Err
    ELSE IF app.envs[app.environment].token # << >>
    THEN Ok(app.envs[app.environment].token)
    ELSE IF cache.status # "ok" THEN Err
    ELSE IF cache.envs[app.environment].token = << >> THEN Err
    ELSE Ok(cache.envs[app.environment].token)

\* providedUrl after the loop over [main config, cache config]
ResolveEndpoint(flagUrl, env) ==
    LET afterMain == IF flagUrl = << >> THEN appFile.envs[env].endpoint ELSE flagUrl
    IN  IF cacheFile.status = "ok" /\ afterMain = << >>
        THEN cacheFile.envs[env].endpoint
        ELSE afterMain

\* viper "token" after the loop: the last non-empty token of the two tiers
ResolveToken(env) ==
    IF cacheFile.status = "ok" /\ cacheFile.envs[env].token # << >>
    THEN cacheFile.envs[env].token
    ELSE appFile.envs[env].token

loadEnvironmentConfig ==
    /\ pc = "loadEnvironmentConfig"
    /\ LET env == appFile.environment
           url == ResolveEndpoint(L.providedUrl, env)
           isProxyEnabled == appFile.envs[env].proxy
           containsIdentity == Contains(ToLower(url), Identity)
       IN  IF url = << >>
           THEN Exit(1, "NoEndpoint") /\ UNCHANGED L
           ELSE IF ~isProxyEnabled /\ ~containsIdentity
           THEN /\ Exit(1, "ProxyModeRequired")
                /\ L' = [L EXCEPT !.providedUrl = url, !.token = ResolveToken(env)]
           ELSE /\ L' = [L EXCEPT !.providedUrl = url, !.token = ResolveToken(env)]
                /\ pc' = "loadCachedUsers"
                /\ UNCHANGED << exitCode, failure >>
    /\ UNCHANGED << Persistent, sel, kbd, rpcLog, srv, start >>

(***************************************************************************)
(* executeUserLogin, credential acquisition (login.go 285-353)             *)
(***************************************************************************)

\* keyboard.Open at the start of a selector; os.Exit leaves the keyboard open
OpenKeyboard(nextPc) ==
    \/ /\ Exit(1, "KeyboardOpen")
       /\ UNCHANGED << kbd, sel >>
    \/ /\ kbd' = kbd + 1
       /\ sel' = Sel0
       /\ pc' = nextPc
       /\ UNCHANGED << exitCode, failure >>

\* deferred keyboard.Close calls that run when `n` selectors return
CloseKeyboard(n) == IF kbd > n THEN kbd - n ELSE 0

\* the cache file is read; with cached users the user selector is started
loadCachedUsers ==
    /\ pc = "loadCachedUsers"
    /\ LET users == cacheFile.envs[L.currentEnv].users
       IN  IF cacheFile.status = "ok" /\ Len(users) > 0
           THEN /\ L' = [L EXCEPT !.users = users]
                /\ OpenKeyboard("promptUserSelection")
           ELSE /\ pc' = "promptCredentials"
                /\ UNCHANGED << L, sel, kbd, exitCode, failure >>
    /\ UNCHANGED << Persistent, rpcLog, srv, start >>

\* filterUsers (login.go 603-615)
filterUsers(users, searchTerm) ==
    SelectSeq(users, LAMBDA u : Contains(ToLower(u.userid), ToLower(searchTerm)))

\* mutant of FilteredUsers: an empty search result is shown as it is
FilteredUsersNoFallback(users, searchTerm) ==
    IF searchTerm # << >> THEN filterUsers(users, searchTerm) ELSE users

\* the list shown in this iteration (login.go 468-476)
FilteredUsers(users, searchTerm) ==
    IF searchTerm # << >>
    THEN IF Len(filterUsers(users, searchTerm)) = 0
         THEN users
         ELSE filterUsers(users, searchTerm)
    ELSE users

\* 1-based position in `users` of the first user with this userid (562-567)
RECURSIVE FirstUserIndex(_, _, _)
FirstUserIndex(users, userid, i) ==
    IF i > Len(users) THEN 0
    ELSE IF users[i].userid = userid THEN i
    ELSE FirstUserIndex(users, userid, i + 1)

\* mutant of SearchModeKey: Escape leaves search mode but keeps the term
SearchModeKeyEscKeepsTerm(s, ev) ==
    LET t == s.searchTerm
        s1 == CASE ev.key = "Esc" -> [s EXCEPT !.searchMode = FALSE]
                [] ev.key = "Backspace" ->
                     [s EXCEPT !.searchTerm = IF Len(t) > 0 THEN SubSeq(t, 1, Len(t) - 1) ELSE t]
                [] ev.key = "Enter" -> [s EXCEPT !.searchMode = FALSE]
                [] OTHER -> IF ev.char # 0 THEN [s EXCEPT !.searchTerm = Append(t, ev.char)]
                            ELSE s
    IN  [s1 EXCEPT !.currentPage = 0, !.selectedIndex = 0]

\* mutant of SearchModeKey: Enter leaves search mode and clears the term
SearchModeKeyEnterClears(s, ev) ==
    LET t == s.searchTerm
        s1 == CASE ev.key = "Esc" -> [s EXCEPT !.searchMode = FALSE, !.searchTerm = << >>]
                [] ev.key = "Backspace" ->
                     [s EXCEPT !.searchTerm = IF Len(t) > 0 THEN SubSeq(t, 1, Len(t) - 1) ELSE t]
                [] ev.key = "Enter" -> [s EXCEPT !.searchMode = FALSE, !.searchTerm = << >>]
                [] OTHER -> IF ev.char # 0 THEN [s EXCEPT !.searchTerm = Append(t, ev.char)]
                            ELSE s
    IN  [s1 EXCEPT !.currentPage = 0, !.selectedIndex = 0]

\* mutant of SearchModeKey: a typed character leaves page and cursor alone
SearchModeKeyTextOnly(s, ev) ==
    LET t == s.searchTerm
        s1 == CASE ev.key = "Esc" -> [s EXCEPT !.searchMode = FALSE, !.searchTerm = << >>]
                [] ev.key = "Backspace" ->
                     [s EXCEPT !.searchTerm = IF Len(t) > 0 THEN SubSeq(t, 1, Len(t) - 1) ELSE t]
                [] ev.key = "Enter" -> [s EXCEPT !.searchMode = FALSE]
                [] OTHER -> IF ev.char # 0 THEN [s EXCEPT !.searchTerm = Append(t, ev.char)]
                            ELSE s
    IN  IF ev.char # 0 THEN s1 ELSE [s1 EXCEPT !.currentPage = 0, !.selectedIndex = 0]

\* search-mode key handling, shared by the two list selectors
\* (login.go 527-548 and 1579-1599)
SearchModeKey(s, ev) ==
    LET t == s.searchTerm
        s1 == CASE ev.key = "Esc" -> [s EXCEPT !.searchMode = FALSE, !.searchTerm = << >>]
                [] ev.key = "Backspace" ->
                     [s EXCEPT !.searchTerm = IF Len(t) > 0 THEN SubSeq(t, 1, Len(t) - 1) ELSE t]
                [] ev.key = "Enter" -> [s EXCEPT !.searchMode = FALSE]
                [] OTHER -> IF ev.char # 0 THEN [s EXCEPT !.searchTerm = Append(t, ev.char)]
                            ELSE s
    IN  [s1 EXCEPT !.currentPage = 0, !.selectedIndex = 0]

\* mutant of promptUserSelectionStep: Enter returns the position in the
\* shown list instead of the position in the original list
promptUserSelectionStepShownIndex(users, s, ev) ==
    LET filteredUsers == FilteredUsers(users, s.searchTerm)
        totalUsers == Len(filteredUsers)
        totalPages == (totalUsers + PageSizeUsers - 1) \div PageSizeUsers
        startIndex == s.currentPage * PageSizeUsers
        endIndex == IF startIndex + PageSizeUsers > totalUsers
                    THEN totalUsers ELSE startIndex + PageSizeUsers
        cont(t) == [kind |-> "continue", sel |-> t]
    IN  IF s.searchMode THEN cont(SearchModeKey(s, ev))
        ELSE IF ev.key = "Enter" /\ s.selectedIndex <= totalUsers
        THEN IF s.selectedIndex = totalUsers
             THEN [kind |-> "return", value |-> Len(users) + 1]
             ELSE [kind |-> "return", value |-> s.selectedIndex + 1]
        ELSE CASE ev.char = 106 ->
                    cont(IF s.selectedIndex < endIndex
                         THEN [s EXCEPT !.selectedIndex = @ + 1] ELSE s)
               [] ev.char = 107 ->
                    cont(IF s.selectedIndex > startIndex
                         THEN [s EXCEPT !.selectedIndex = @ - 1] ELSE s)
               [] ev.char = 108 ->
                    cont(IF s.currentPage < totalPages - 1
                         THEN [s EXCEPT !.currentPage = @ + 1,
                                        !.selectedIndex = (s.currentPage + 1) * PageSizeUsers]
                         ELSE s)
               [] ev.char = 104 ->
                    cont(IF s.currentPage > 0
                         THEN [s EXCEPT !.currentPage = @ - 1,
                                        !.selectedIndex = (s.currentPage - 1) * PageSizeUsers]
                         ELSE s)
               [] ev.char = 47 ->
                    cont([s EXCEPT !.searchMode = TRUE, !.searchTerm = << >>,
                                   !.selectedIndex = 0])
               [] ev.char \in {113, 81} -> [kind |-> "exit"]
               [] OTHER -> cont(s)

\* mutant of promptUserSelectionStep: the page keys wrap around, as in
\* selectWorkspaceOnly
promptUserSelectionStepWrapped(users, s, ev) ==
    LET filteredUsers == FilteredUsers(users, s.searchTerm)
        totalUsers == Len(filteredUsers)
        totalPages == (totalUsers + PageSizeUsers - 1) \div PageSizeUsers
        startIndex == s.currentPage * PageSizeUsers
        endIndex == IF startIndex + PageSizeUsers > totalUsers
                    THEN totalUsers ELSE startIndex + PageSizeUsers
        cont(t) == [kind |-> "continue", sel |-> t]
    IN  IF s.searchMode THEN cont(SearchModeKey(s, ev))
        ELSE IF ev.key = "Enter" /\ s.selectedIndex <= totalUsers
        THEN IF s.selectedIndex = totalUsers
             THEN [kind |-> "return", value |-> Len(users) + 1]
             ELSE [kind |-> "return",
                   value |-> FirstUserIndex(users,
                                 filteredUsers[s.selectedIndex + 1].userid, 1)]
        ELSE CASE ev.char = 106 ->
                    cont(IF s.selectedIndex < endIndex
                         THEN [s EXCEPT !.selectedIndex = @ + 1] ELSE s)
               [] ev.char = 107 ->
                    cont(IF s.selectedIndex > startIndex
                         THEN [s EXCEPT !.selectedIndex = @ - 1] ELSE s)
               [] ev.char = 108 ->
                    cont([s EXCEPT !.currentPage = (s.currentPage + 1) % totalPages,
                                   !.selectedIndex = ((s.currentPage + 1) % totalPages) * PageSizeUsers])
               [] ev.char = 104 ->
                    cont([s EXCEPT !.currentPage = (s.currentPage - 1 + totalPages) % totalPages,
                                   !.selectedIndex = ((s.currentPage - 1 + totalPages) % totalPages) * PageSizeUsers])
               [] ev.char = 47 ->
                    cont([s EXCEPT !.searchMode = TRUE, !.searchTerm = << >>,
                                   !.selectedIndex = 0])
               [] ev.char \in {113, 81} -> [kind |-> "exit"]
               [] OTHER -> cont(s)

\* one iteration of promptUserSelection's loop (login.go 465-599) on key ev:
\* [kind |-> "continue", sel], [kind |-> "return", value] or [kind |-> "exit"]
promptUserSelectionStep(users, s, ev) ==
    LET filteredUsers == FilteredUsers(users, s.searchTerm)
        totalUsers == Len(filteredUsers)
        totalPages == (totalUsers + PageSizeUsers - 1) \div PageSizeUsers
        startIndex == s.currentPage * PageSizeUsers
        endIndex == IF startIndex + PageSizeUsers > totalUsers
                    THEN totalUsers ELSE startIndex + PageSizeUsers
        cont(t) == [kind |-> "continue", sel |-> t]
    IN  IF s.searchMode THEN cont(SearchModeKey(s, ev))
        ELSE IF ev.key = "Enter" /\ s.selectedIndex <= totalUsers
        THEN IF s.selectedIndex = totalUsers
             THEN [kind |-> "return", value |-> Len(users) + 1]
             ELSE [kind |-> "return",
                   value |-> FirstUserIndex(users,
                                 filteredUsers[s.selectedIndex + 1].userid, 1)]
        ELSE CASE ev.char = 106 ->      \* 'j'
                    cont(IF s.selectedIndex < endIndex
                         THEN [s EXCEPT !.selectedIndex = @ + 1] ELSE s)
               [] ev.char = 107 ->      \* 'k'
                    cont(IF s.selectedIndex > startIndex
                         THEN [s EXCEPT !.selectedIndex = @ - 1] ELSE s)
               [] ev.char = 108 ->      \* 'l'
                    cont(IF s.currentPage < totalPages - 1
                         THEN [s EXCEPT !.currentPage = @ + 1,
                                        !.selectedIndex = (s.currentPage + 1) * PageSizeUsers]
                         ELSE s)
               [] ev.char = 104 ->      \* 'h'
                    cont(IF s.currentPage > 0
                         THEN [s EXCEPT !.currentPage = @ - 1,
                                        !.selectedIndex = (s.currentPage - 1) * PageSizeUsers]
                         ELSE s)
               [] ev.char = 47 ->       \* '/'
                    cont([s EXCEPT !.searchMode = TRUE, !.searchTerm = << >>,
                                   !.selectedIndex = 0])
               [] ev.char \in {113, 81} -> [kind |-> "exit"]   \* 'q', 'Q'
               [] OTHER -> cont(s)

promptUserSelectionKey(Keys) ==
    /\ pc = "promptUserSelection"
    /\ \/ /\ Exit(1, "KeyboardRead")
          /\ UNCHANGED << L, sel, kbd >>
       \/ \E ev \in Keys :
            LET r == promptUserSelectionStep(L.users, sel, ev)
            IN  CASE r.kind = "continue" ->
                       /\ sel' = r.sel
                       /\ UNCHANGED << L, kbd, pc, exitCode, failure >>
                  [] r.kind = "return" ->
                       /\ L' = [L EXCEPT !.userSelection = r.value]
                       /\ kbd' = CloseKeyboard(1)
                       /\ pc' = "useSelectedUser"
                       /\ UNCHANGED << sel, exitCode, failure >>
                  [] OTHER ->
                       /\ Exit(1, "Cancelled")
                       /\ UNCHANGED << L, sel, kbd >>
    /\ UNCHANGED << Persistent, rpcLog, srv, start >>

\* mutant of selectedUserPassword: the password is asked for even when the
\* stored token is still valid
selectedUserPasswordPrompt(user, clock, kr, rnd, typed) ==
    LET d == decrypt(user.password, kr, rnd)
    IN  IF ~d.ok
        THEN [status |-> "decryptError", password |-> typed, prompted |-> TRUE, kr |-> d.kr]
        ELSE IF typed # d.val /\ isTokenExpired(user.token, clock)
        THEN [status |-> "mismatch", password |-> typed, prompted |-> TRUE, kr |-> d.kr]
        ELSE [status |-> "ok", password |-> typed, prompted |-> TRUE, kr |-> d.kr]

\* mutant of selectedUserPassword: the re-typed password is not compared
\* with the stored one
selectedUserPasswordUnverified(user, clock, kr, rnd, typed) ==
    LET d == decrypt(user.password, kr, rnd)
    IN  IF ~isTokenExpired(user.token, clock)
        THEN IF ~d.ok
             THEN [status |-> "decryptError", password |-> << >>, prompted |-> FALSE, kr |-> d.kr]
             ELSE [status |-> "ok", password |-> d.val, prompted |-> FALSE, kr |-> d.kr]
        ELSE IF ~d.ok
             THEN [status |-> "decryptError", password |-> typed, prompted |-> TRUE, kr |-> d.kr]
             ELSE [status |-> "ok", password |-> typed, prompted |-> TRUE, kr |-> d.kr]

\* The password for a selected cached user (login.go 309-337): `typed` is
\* what the user would type at promptPassword.  Returns [status, password,
\* prompted, kr]; status is "ok", "decryptError" or "mismatch".
selectedUserPassword(user, clock, kr, rnd, typed) ==
    LET d == decrypt(user.password, kr, rnd)
    IN  IF ~isTokenExpired(user.token, clock)
        THEN IF ~d.ok
             THEN [status |-> "decryptError", password |-> << >>, prompted |-> FALSE, kr |-> d.kr]
             ELSE [status |-> "ok", password |-> d.val, prompted |-> FALSE, kr |-> d.kr]
        ELSE IF ~d.ok
             THEN [status |-> "decryptError", password |-> typed, prompted |-> TRUE, kr |-> d.kr]
             ELSE IF typed # d.val
             THEN [status |-> "mismatch", password |-> typed, prompted |-> TRUE, kr |-> d.kr]
             ELSE [status |-> "ok", password |-> typed, prompted |-> TRUE, kr |-> d.kr]

useSelectedUser ==
    /\ pc = "useSelectedUser"
    /\ IF L.userSelection <= Len(L.users)
       THEN \E rnd \in Rnd, typed \in Passwords :
              LET user == L.users[L.userSelection]
                  r == selectedUserPassword(user, now, keyring, rnd, typed)
              IN  /\ L' = [L EXCEPT !.userID = user.userid,
                                    !.password = r.password,
                                    !.pwPrompts = @ + (IF r.prompted THEN 1 ELSE 0)]
                  /\ keyring' = r.kr
                  /\ CASE r.status = "decryptError" -> Exit(1, "Decrypt")
                       [] r.status = "mismatch" -> Exit(1, "PasswordMismatch")
                       [] OTHER -> /\ pc' = "checkEnvironmentName"
                                   /\ UNCHANGED << exitCode, failure >>
       ELSE /\ pc' = "promptCredentials"
            /\ UNCHANGED << L, keyring, exitCode, failure >>
    /\ UNCHANGED << appFile, cacheFile, now, runs, sel, kbd, rpcLog, srv, start >>

\* promptCredentials (login.go 436-441)
promptCredentials ==
    /\ pc = "promptCredentials"
    /\ \E id \in UserIDs, pw \in Passwords :
         L' = [L EXCEPT !.userID = id, !.password = pw, !.credPrompts = @ + 1]
    /\ pc' = "checkEnvironmentName"
    /\ UNCHANGED << Persistent, exitCode, failure, sel, kbd, rpcLog, srv, start >>

\* the main config is read again and the environment name split (356-370)
checkEnvironmentName ==
    /\ pc = "checkEnvironmentName"
    /\ IF appFile.status # "ok"
       THEN Exit(1, "ConfigUnreadable")
       ELSE IF Len(Split(appFile.environment, Dash)) < 3
       THEN Exit(1, "InvalidEnvironmentName")
       ELSE /\ pc' = "fetchDomainID"
            /\ UNCHANGED << exitCode, failure >>
    /\ UNCHANGED << Persistent, L, sel, kbd, rpcLog, srv, start >>

(***************************************************************************)
(* executeUserLogin, the remote chain (login.go 372-433)                   *)
(***************************************************************************)

\* mutant of DomainName: the first segment instead of the second
DomainNameFirst(env) == Split(env, Dash)[1]

\* name := nameParts[1]
DomainName(env) == Split(env, Dash)[2]

Call(name, ok, args) == [call |-> name, ok |-> ok, args |-> args]

\* fetchDomainID (login.go 373-377, 954-1019)
fetchDomainID ==
    /\ pc = "fetchDomainID"
    /\ LET name == DomainName(appFile.environment)
       IN  \E ok \in BOOLEAN :
             /\ rpcLog' = Append(rpcLog, Call("resolveDomain", ok, [name |-> name]))
             /\ IF ok
                THEN /\ L' = [L EXCEPT !.domainID = DomainIdOf(name)]
                     /\ pc' = "issueToken"
                     /\ UNCHANGED << exitCode, failure >>
                ELSE /\ Exit(1, "FetchDomainID")
                     /\ UNCHANGED L
    /\ UNCHANGED << Persistent, sel, kbd, srv, start >>

\* issueToken (login.go 380-384, 1021-1113); the service accepts only the
\* user's password; a successful call authenticates an account, whose role
\* and workspaces the later calls report
issueToken ==
    /\ pc = "issueToken"
    /\ \E ok \in {FALSE, L.password = ServerPassword(L.userID)} :
         /\ rpcLog' = Append(rpcLog, Call("issueToken", ok,
                          [userID |-> L.userID, password |-> L.password,
                           domainID |-> L.domainID]))
         /\ IF ok
            THEN /\ L' = [L EXCEPT !.accessToken = AccessTok,
                                   !.refreshToken = RefreshTok]
                 /\ \E role \in Roles, ws \in WsLists :
                      srv' = [role |-> role, workspaces |-> ws]
                 /\ pc' = "encryptPassword"
                 /\ UNCHANGED << exitCode, failure >>
            ELSE /\ Exit(1, "IssueToken")
                 /\ UNCHANGED << L, srv >>
    /\ UNCHANGED << Persistent, sel, kbd, start >>

\* encrypt(password) (login.go 386-391)
encryptPassword ==
    /\ pc = "encryptPassword"
    /\ \E rnd \in Rnd :
         LET r == encrypt(L.password, keyring, rnd)
         IN  /\ keyring' = r.kr
             /\ IF r.ok
                THEN /\ L' = [L EXCEPT !.encryptedPassword = r.val]
                     /\ pc' = "fetchWorkspaces"
                     /\ UNCHANGED << exitCode, failure >>
                ELSE /\ Exit(1, "Encrypt")
                     /\ UNCHANGED L
    /\ UNCHANGED << appFile, cacheFile, now, runs, sel, kbd, rpcLog, srv, start >>

\* mutant of fetchWorkspaces: an empty result is returned to the caller
\* instead of ending the process
fetchWorkspacesNoExit ==
    /\ pc = "fetchWorkspaces"
    /\ \E ok \in BOOLEAN :
         /\ rpcLog' = Append(rpcLog, [call |-> "listWorkspaces", ok |-> ok,
                                      args |-> [accessToken |-> L.accessToken]])
         /\ L' = [L EXCEPT !.workspaces = IF ok THEN srv.workspaces ELSE << >>,
                           !.wsError = ~ok]
         /\ pc' = "fetchDomainIDAndRole"
    /\ UNCHANGED << appFile, cacheFile, keyring, now, runs, exitCode, failure,
                    sel, kbd, srv, start >>

\* fetchWorkspaces (login.go 393-396, 1115-1216): an empty result ends the
\* process inside fetchWorkspaces; a failed call is reported and the login
\* goes on with no workspaces
fetchWorkspaces ==
    /\ pc = "fetchWorkspaces"
    /\ \E ok \in BOOLEAN :
         /\ rpcLog' = Append(rpcLog, Call("listWorkspaces", ok,
                          [accessToken |-> L.accessToken]))
         /\ IF ~ok
            THEN /\ L' = [L EXCEPT !.workspaces = << >>, !.wsError = TRUE]
                 /\ pc' = "fetchDomainIDAndRole"
                 /\ UNCHANGED << exitCode, failure >>
            ELSE IF Len(srv.workspaces) = 0
            THEN /\ Exit(1, "NoAccessibleWorkspace")
                 /\ UNCHANGED L
            ELSE /\ L' = [L EXCEPT !.workspaces = srv.workspaces]
                 /\ pc' = "fetchDomainIDAndRole"
                 /\ UNCHANGED << exitCode, failure >>
    /\ UNCHANGED << Persistent, sel, kbd, srv, start >>

\* determineScope (login.go 902-913): "" stands for exitWithError
determineScope(roleType) ==
    CASE roleType = "DOMAIN_ADMIN" -> "DOMAIN"
      [] roleType \in {"WORKSPACE_OWNER", "WORKSPACE_MEMBER", "USER"} -> "WORKSPACE"
      [] OTHER -> ""

\* fetchDomainIDAndRole and determineScope (login.go 398-406, 1218-1310)
fetchDomainIDAndRole ==
    /\ pc = "fetchDomainIDAndRole"
    /\ \E ok \in BOOLEAN :
         /\ rpcLog' = Append(rpcLog, Call("whoAmI", ok,
                          [accessToken |-> L.accessToken]))
         /\ IF ~ok
            THEN /\ Exit(1, "FetchDomainIDAndRole")
                 /\ UNCHANGED L
            ELSE /\ L' = [L EXCEPT !.roleType = srv.role,
                                   !.scope = determineScope(srv.role)]
                 /\ IF determineScope(srv.role) = ""
                    THEN Exit(1, "UnknownRole")
                    ELSE /\ pc' = IF srv.role = "DOMAIN_ADMIN"
                                  THEN "selectScopeOrWorkspace"
                                  ELSE "selectWorkspaceOnly"
                         /\ UNCHANGED << exitCode, failure >>
    /\ UNCHANGED << Persistent, sel, kbd, srv, start >>

(***************************************************************************)
(* selectScopeOrWorkspace (login.go 1434-1500)                             *)
(***************************************************************************)
selectScopeOrWorkspaceOpen ==
    /\ pc = "selectScopeOrWorkspace"
    /\ OpenKeyboard("scopeSelect")
    /\ UNCHANGED << Persistent, L, rpcLog, srv, start >>

\* mutant of ScopeFor: the "0" returned for DOMAIN is taken for a workspace id
ScopeForNoDomain(roleType, returned) ==
    [scope |-> "WORKSPACE", workspaceID |-> returned]

\* scope and workspaceID as executeUserLogin sets them from the selector's
\* return value (login.go 408-419)
ScopeFor(roleType, returned) ==
    IF roleType = "DOMAIN_ADMIN"
    THEN IF returned = "0"
         THEN [scope |-> "DOMAIN", workspaceID |-> ""]
         ELSE [scope |-> "WORKSPACE", workspaceID |-> returned]
    ELSE [scope |-> "WORKSPACE", workspaceID |-> returned]

\* mutant of selectScopeOrWorkspaceStep: 'q' and 'Q' are ignored
selectScopeOrWorkspaceStepNoQuit(s, ev) ==
    IF ev.key = "Enter"
    THEN IF s.selectedIndex = 0
         THEN [kind |-> "return", value |-> "0"]
         ELSE [kind |-> "workspaces"]
    ELSE CASE ev.char = 106 ->
                [kind |-> "continue",
                 sel |-> IF s.selectedIndex < 1 THEN [s EXCEPT !.selectedIndex = @ + 1] ELSE s]
           [] ev.char = 107 ->
                [kind |-> "continue",
                 sel |-> IF s.selectedIndex > 0 THEN [s EXCEPT !.selectedIndex = @ - 1] ELSE s]
           [] OTHER -> [kind |-> "continue", sel |-> s]

\* one iteration of the scope loop: options are 0: DOMAIN, 1: WORKSPACES
selectScopeOrWorkspaceStep(s, ev) ==
    IF ev.key = "Enter"
    THEN IF s.selectedIndex = 0
         THEN [kind |-> "return", value |-> "0"]
         ELSE [kind |-> "workspaces"]
    ELSE CASE ev.char = 106 ->
                [kind |-> "continue",
                 sel |-> IF s.selectedIndex < 1 THEN [s EXCEPT !.selectedIndex = @ + 1] ELSE s]
           [] ev.char = 107 ->
                [kind |-> "continue",
                 sel |-> IF s.selectedIndex > 0 THEN [s EXCEPT !.selectedIndex = @ - 1] ELSE s]
           [] ev.char \in {113, 81} -> [kind |-> "exit"]
           [] OTHER -> [kind |-> "continue", sel |-> s]

selectScopeOrWorkspaceKey(Keys) ==
    /\ pc = "scopeSelect"
    /\ \/ /\ Exit(1, "KeyboardRead")
          /\ UNCHANGED << L, sel, kbd >>
       \/ \E ev \in Keys :
            LET r == selectScopeOrWorkspaceStep(sel, ev)
            IN  CASE r.kind = "continue" ->
                       /\ sel' = r.sel
                       /\ UNCHANGED << L, kbd, pc, exitCode, failure >>
                  [] r.kind = "return" ->
                       /\ L' = [L EXCEPT
                                  !.domainChosen = TRUE,
                                  !.scope = ScopeFor(L.roleType, r.value).scope,
                                  !.workspaceID = ScopeFor(L.roleType, r.value).workspaceID]
                       /\ kbd' = CloseKeyboard(1)
                       /\ pc' = "grantToken"
                       /\ UNCHANGED << sel, exitCode, failure >>
                  [] r.kind = "workspaces" ->
                       /\ pc' = "selectWorkspaceOnly"
                       /\ UNCHANGED << L, sel, kbd, exitCode, failure >>
                  [] OTHER ->
                       /\ Exit(1, "Cancelled")
                       /\ UNCHANGED << L, sel, kbd >>
    /\ UNCHANGED << Persistent, rpcLog, srv, start >>

(***************************************************************************)
(* selectWorkspaceOnly (login.go 1503-1665)                                *)
(***************************************************************************)

\* filterWorkspaces (login.go 1654-1665)
filterWorkspaces(workspaces, searchTerm) ==
    SelectSeq(workspaces, LAMBDA w : Contains(ToLower(w.name), ToLower(searchTerm)))

FilteredWorkspaces(workspaces, searchTerm) ==
    IF searchTerm # << >>
    THEN IF Len(filterWorkspaces(workspaces, searchTerm)) = 0
         THEN workspaces
         ELSE filterWorkspaces(workspaces, searchTerm)
    ELSE workspaces

\* keyboard.Open, then the first iteration: with no workspaces the page
\* count is 0 and currentPage % totalPages panics (login.go 1512-1535);
\* the deferred Close calls run while the panic unwinds, the exit status is 2
selectWorkspaceOnlyOpen ==
    /\ pc = "selectWorkspaceOnly"
    /\ \/ /\ Exit(1, "KeyboardOpen")
          /\ UNCHANGED << kbd, sel >>
       \/ IF Len(L.workspaces) = 0
          THEN /\ Exit(2, "Panic")
               /\ kbd' = 0
               /\ UNCHANGED sel
          ELSE /\ kbd' = kbd + 1
               /\ sel' = Sel0
               /\ pc' = "wsSelect"
               /\ UNCHANGED << exitCode, failure >>
    /\ UNCHANGED << Persistent, L, rpcLog, srv, start >>

\* mutant of selectWorkspaceOnlyStep: Enter with a number that is no valid
\* index keeps the number
selectWorkspaceOnlyStepKeepBuffer(workspaces, s, ev) ==
    LET filtered == FilteredWorkspaces(workspaces, s.searchTerm)
        total == Len(filtered)
        totalPages == (total + PageSizeWorkspaces - 1) \div PageSizeWorkspaces
        startIndex == (s.currentPage % totalPages) * PageSizeWorkspaces
        endIndex == IF startIndex + PageSizeWorkspaces > total
                    THEN total ELSE startIndex + PageSizeWorkspaces
        index == Atoi(s.inputBuffer)
        adjustedIndex == startIndex + s.selectedIndex
        cont(t) == [kind |-> "continue", sel |-> t]
        lastRow == IF PageSizeWorkspaces - 1 < endIndex - startIndex - 1
                   THEN PageSizeWorkspaces - 1 ELSE endIndex - startIndex - 1
        \* switch key (login.go 1602-1620); "none" when it does not return
        afterKey ==
            CASE ev.key = "Enter" /\ s.inputBuffer # << >> ->
                   IF index >= 1 /\ index <= total
                   THEN [kind |-> "return", value |-> filtered[index].workspace_id]
                   ELSE cont(s)
              [] ev.key = "Enter" /\ s.inputBuffer = << >> ->
                   IF adjustedIndex >= 0 /\ adjustedIndex < total
                   THEN [kind |-> "return", value |-> filtered[adjustedIndex + 1].workspace_id]
                   ELSE cont(s)
              [] ev.key = "Backspace" ->
                   cont(IF Len(s.inputBuffer) > 0
                        THEN [s EXCEPT !.inputBuffer = SubSeq(@, 1, Len(@) - 1)]
                        ELSE s)
              [] OTHER -> cont(s)
        t == afterKey.sel
    IN  IF s.searchMode THEN cont(SearchModeKey(s, ev))
        ELSE IF afterKey.kind = "return" THEN afterKey
        ELSE CASE ev.char = 106 ->
                    cont(IF t.selectedIndex < lastRow
                         THEN [t EXCEPT !.selectedIndex = @ + 1] ELSE t)
               [] ev.char = 107 ->
                    cont(IF t.selectedIndex > 0
                         THEN [t EXCEPT !.selectedIndex = @ - 1] ELSE t)
               [] ev.char = 108 ->
                    cont([t EXCEPT !.currentPage = (t.currentPage + 1) % totalPages,
                                   !.selectedIndex = 0])
               [] ev.char = 104 ->
                    cont([t EXCEPT !.currentPage = (t.currentPage - 1 + totalPages) % totalPages,
                                   !.selectedIndex = 0])
               [] ev.char \in {113, 81} -> [kind |-> "exit"]
               [] ev.char = 47 ->
                    cont([t EXCEPT !.searchMode = TRUE, !.searchTerm = << >>,
                                   !.selectedIndex = 0])
               [] IsDigit(ev.char) ->
                    cont([t EXCEPT !.inputBuffer = Append(@, ev.char)])
               [] OTHER -> cont(t)

\* mutant of selectWorkspaceOnlyStep: the page keys stop at the first and the
\* last page, as in promptUserSelection
selectWorkspaceOnlyStepClamped(workspaces, s, ev) ==
    LET filtered == FilteredWorkspaces(workspaces, s.searchTerm)
        total == Len(filtered)
        totalPages == (total + PageSizeWorkspaces - 1) \div PageSizeWorkspaces
        startIndex == (s.currentPage % totalPages) * PageSizeWorkspaces
        endIndex == IF startIndex + PageSizeWorkspaces > total
                    THEN total ELSE startIndex + PageSizeWorkspaces
        index == Atoi(s.inputBuffer)
        adjustedIndex == startIndex + s.selectedIndex
        cont(t) == [kind |-> "continue", sel |-> t]
        lastRow == IF PageSizeWorkspaces - 1 < endIndex - startIndex - 1
                   THEN PageSizeWorkspaces - 1 ELSE endIndex - startIndex - 1
        \* switch key (login.go 1602-1620); "none" when it does not return
        afterKey ==
            CASE ev.key = "Enter" /\ s.inputBuffer # << >> ->
                   IF index >= 1 /\ index <= total
                   THEN [kind |-> "return", value |-> filtered[index].workspace_id]
                   ELSE cont([s EXCEPT !.inputBuffer = << >>])
              [] ev.key = "Enter" /\ s.inputBuffer = << >> ->
                   IF adjustedIndex >= 0 /\ adjustedIndex < total
                   THEN [kind |-> "return", value |-> filtered[adjustedIndex + 1].workspace_id]
                   ELSE cont(s)
              [] ev.key = "Backspace" ->
                   cont(IF Len(s.inputBuffer) > 0
                        THEN [s EXCEPT !.inputBuffer = SubSeq(@, 1, Len(@) - 1)]
                        ELSE s)
              [] OTHER -> cont(s)
        t == afterKey.sel
    IN  IF s.searchMode THEN cont(SearchModeKey(s, ev))
        ELSE IF afterKey.kind = "return" THEN afterKey
        ELSE CASE ev.char = 106 ->
                    cont(IF t.selectedIndex < lastRow
                         THEN [t EXCEPT !.selectedIndex = @ + 1] ELSE t)
               [] ev.char = 107 ->
                    cont(IF t.selectedIndex > 0
                         THEN [t EXCEPT !.selectedIndex = @ - 1] ELSE t)
               [] ev.char = 108 ->
                    cont([t EXCEPT !.currentPage = IF @ < totalPages - 1 THEN @ + 1 ELSE @,
                                   !.selectedIndex = 0])
               [] ev.char = 104 ->
                    cont([t EXCEPT !.currentPage = IF @ > 0 THEN @ - 1 ELSE @,
                                   !.selectedIndex = 0])
               [] ev.char \in {113, 81} -> [kind |-> "exit"]
               [] ev.char = 47 ->
                    cont([t EXCEPT !.searchMode = TRUE, !.searchTerm = << >>,
                                   !.selectedIndex = 0])
               [] IsDigit(ev.char) ->
                    cont([t EXCEPT !.inputBuffer = Append(@, ev.char)])
               [] OTHER -> cont(t)

\* mutant of selectWorkspaceOnlyStep: 'j' moves down to the last row of a full
\* page even when the page shown is shorter
selectWorkspaceOnlyStepLongPage(workspaces, s, ev) ==
    LET filtered == FilteredWorkspaces(workspaces, s.searchTerm)
        total == Len(filtered)
        totalPages == (total + PageSizeWorkspaces - 1) \div PageSizeWorkspaces
        startIndex == (s.currentPage % totalPages) * PageSizeWorkspaces
        endIndex == IF startIndex + PageSizeWorkspaces > total
                    THEN total ELSE startIndex + PageSizeWorkspaces
        index == Atoi(s.inputBuffer)
        adjustedIndex == startIndex + s.selectedIndex
        cont(t) == [kind |-> "continue", sel |-> t]
        lastRow == IF PageSizeWorkspaces - 1 < endIndex - startIndex - 1
                   THEN PageSizeWorkspaces - 1 ELSE endIndex - startIndex - 1
        \* switch key (login.go 1602-1620); "none" when it does not return
        afterKey ==
            CASE ev.key = "Enter" /\ s.inputBuffer # << >> ->
                   IF index >= 1 /\ index <= total
                   THEN [kind |-> "return", value |-> filtered[index].workspace_id]
                   ELSE cont([s EXCEPT !.inputBuffer = << >>])
              [] ev.key = "Enter" /\ s.inputBuffer = << >> ->
                   IF adjustedIndex >= 0 /\ adjustedIndex < total
                   THEN [kind |-> "return", value |-> filtered[adjustedIndex + 1].workspace_id]
                   ELSE cont(s)
              [] ev.key = "Backspace" ->
                   cont(IF Len(s.inputBuffer) > 0
                        THEN [s EXCEPT !.inputBuffer = SubSeq(@, 1, Len(@) - 1)]
                        ELSE s)
              [] OTHER -> cont(s)
        t == afterKey.sel
    IN  IF s.searchMode THEN cont(SearchModeKey(s, ev))
        ELSE IF afterKey.kind = "return" THEN afterKey
        ELSE CASE ev.char = 106 ->
                    cont(IF t.selectedIndex < PageSizeWorkspaces - 1
                         THEN [t EXCEPT !.selectedIndex = @ + 1] ELSE t)
               [] ev.char = 107 ->
                    cont(IF t.selectedIndex > 0
                         THEN [t EXCEPT !.selectedIndex = @ - 1] ELSE t)
               [] ev.char = 108 ->
                    cont([t EXCEPT !.currentPage = (t.currentPage + 1) % totalPages,
                                   !.selectedIndex = 0])
               [] ev.char = 104 ->
                    cont([t EXCEPT !.currentPage = (t.currentPage - 1 + totalPages) % totalPages,
                                   !.selectedIndex = 0])
               [] ev.char \in {113, 81} -> [kind |-> "exit"]
               [] ev.char = 47 ->
                    cont([t EXCEPT !.searchMode = TRUE, !.searchTerm = << >>,
                                   !.selectedIndex = 0])
               [] IsDigit(ev.char) ->
                    cont([t EXCEPT !.inputBuffer = Append(@, ev.char)])
               [] OTHER -> cont(t)

\* one iteration of selectWorkspaceOnly's loop on key ev (the list is not
\* empty): [kind |-> "continue", sel], [kind |-> "return", value], "exit"
selectWorkspaceOnlyStep(workspaces, s, ev) ==
    LET filtered == FilteredWorkspaces(workspaces, s.searchTerm)
        total == Len(filtered)
        totalPages == (total + PageSizeWorkspaces - 1) \div PageSizeWorkspaces
        startIndex == (s.currentPage % totalPages) * PageSizeWorkspaces
        endIndex == IF startIndex + PageSizeWorkspaces > total
                    THEN total ELSE startIndex + PageSizeWorkspaces
        index == Atoi(s.inputBuffer)
        adjustedIndex == startIndex + s.selectedIndex
        cont(t) == [kind |-> "continue", sel |-> t]
        lastRow == IF PageSizeWorkspaces - 1 < endIndex - startIndex - 1
                   THEN PageSizeWorkspaces - 1 ELSE endIndex - startIndex - 1
        \* switch key (login.go 1602-1620); "none" when it does not return
        afterKey ==
            CASE ev.key = "Enter" /\ s.inputBuffer # << >> ->
                   IF index >= 1 /\ index <= total
                   THEN [kind |-> "return", value |-> filtered[index].workspace_id]
                   ELSE cont([s EXCEPT !.inputBuffer = << >>])
              [] ev.key = "Enter" /\ s.inputBuffer = << >> ->
                   IF adjustedIndex >= 0 /\ adjustedIndex < total
                   THEN [kind |-> "return", value |-> filtered[adjustedIndex + 1].workspace_id]
                   ELSE cont(s)
              [] ev.key = "Backspace" ->
                   cont(IF Len(s.inputBuffer) > 0
                        THEN [s EXCEPT !.inputBuffer = SubSeq(@, 1, Len(@) - 1)]
                        ELSE s)
              [] OTHER -> cont(s)
        t == afterKey.sel
    IN  IF s.searchMode THEN cont(SearchModeKey(s, ev))
        ELSE IF afterKey.kind = "return" THEN afterKey
        ELSE CASE ev.char = 106 ->
                    cont(IF t.selectedIndex < lastRow
                         THEN [t EXCEPT !.selectedIndex = @ + 1] ELSE t)
               [] ev.char = 107 ->
                    cont(IF t.selectedIndex > 0
                         THEN [t EXCEPT !.selectedIndex = @ - 1] ELSE t)
               [] ev.char = 108 ->
                    cont([t EXCEPT !.currentPage = (t.currentPage + 1) % totalPages,
                                   !.selectedIndex = 0])
               [] ev.char = 104 ->
                    cont([t EXCEPT !.currentPage = (t.currentPage - 1 + totalPages) % totalPages,
                                   !.selectedIndex = 0])
               [] ev.char \in {113, 81} -> [kind |-> "exit"]
               [] ev.char = 47 ->
                    cont([t EXCEPT !.searchMode = TRUE, !.searchTerm = << >>,
                                   !.selectedIndex = 0])
               [] IsDigit(ev.char) ->
                    cont([t EXCEPT !.inputBuffer = Append(@, ev.char)])
               [] OTHER -> cont(t)

selectWorkspaceOnlyKey(Keys) ==
    /\ pc = "wsSelect"
    /\ \/ /\ Exit(1, "KeyboardRead")
          /\ UNCHANGED << L, sel, kbd >>
       \/ \E ev \in Keys :
            LET r == selectWorkspaceOnlyStep(L.workspaces, sel, ev)
            IN  CASE r.kind = "continue" ->
                       /\ sel' = r.sel
                       /\ UNCHANGED << L, kbd, pc, exitCode, failure >>
                  [] r.kind = "return" ->
                       /\ L' = [L EXCEPT
                                  !.scope = ScopeFor(L.roleType, r.value).scope,
                                  !.workspaceID = ScopeFor(L.roleType, r.value).workspaceID]
                       /\ kbd' = CloseKeyboard(IF L.roleType = "DOMAIN_ADMIN" THEN 2 ELSE 1)
                       /\ pc' = "grantToken"
                       /\ UNCHANGED << sel, exitCode, failure >>
                  [] OTHER ->
                       /\ Exit(1, "Cancelled")
                       /\ UNCHANGED << L, sel, kbd >>
    /\ UNCHANGED << Persistent, rpcLog, srv, start >>

(***************************************************************************)
(* grantToken and saveCredentials (login.go 421-433, 708-778, 1312-1398)   *)
(***************************************************************************)

\* the fields grantToken puts in the request (login.go 1360-1380)
GrantRequest(refreshToken, scope, domainID, workspaceID) ==
    [token |-> refreshToken, scope |-> scope, domain_id |-> domainID,
     timeout |-> GrantTimeout,
     workspace_id |-> workspaceID, sendsWorkspaceId |-> workspaceID # ""]

\* mutant of grantToken: the error of the remote call is not checked
grantTokenIgnoringError ==
    /\ pc = "grantToken"
    /\ \E ok \in BOOLEAN :
         /\ rpcLog' = Append(rpcLog, [call |-> "grantToken", ok |-> ok,
                          args |-> GrantRequest(L.refreshToken, L.scope, L.domainID,
                                                L.workspaceID)])
         /\ L' = [L EXCEPT !.newAccessToken =
                     IF ok THEN TokenWithExp(now + GrantTimeout) ELSE << >>]
         /\ pc' = "saveCredentials"
    /\ UNCHANGED << appFile, cacheFile, keyring, now, runs, exitCode, failure,
                    sel, kbd, srv, start >>

grantToken ==
    /\ pc = "grantToken"
    /\ \E ok \in BOOLEAN :
         /\ rpcLog' = Append(rpcLog, Call("grantToken", ok,
                          GrantRequest(L.refreshToken, L.scope, L.domainID, L.workspaceID)))
         /\ IF ok
            THEN /\ L' = [L EXCEPT !.newAccessToken = TokenWithExp(now + GrantTimeout)]
                 /\ pc' = "saveCredentials"
                 /\ UNCHANGED << exitCode, failure >>
            ELSE /\ Exit(1, "GrantToken")
                 /\ UNCHANGED L
    /\ UNCHANGED << Persistent, sel, kbd, srv, start >>

\* mutant of UpsertUser: the existing entry is not looked for
UpsertUserAppend(users, userID, password, token) ==
    Append(users, User(userID, password, token))

\* the users list after saveCredentials' update (login.go 752-770)
UpsertUser(users, userID, password, token) ==
    LET i == FirstUserIndex(users, userID, 1)
    IN  IF i # 0
        THEN [users EXCEPT ![i].password = password, ![i].token = token]
        ELSE Append(users, User(userID, password, token))

\* saveCredentials: an unreadable cache file or a failed write is reported
\* and the function returns; executeUserLogin then reports success
\* mutant of saveCredentials: the access token of issueToken is saved
saveCredentialsIssuedToken ==
    /\ pc = "saveCredentials"
    /\ IF cacheFile.status = "malformed"
       THEN /\ Exit(0, "SaveCredentials")
            /\ UNCHANGED cacheFile
       ELSE \E writeOk \in BOOLEAN :
              IF writeOk
              THEN /\ cacheFile' =
                        [status |-> "ok",
                         envs |-> [cacheFile.envs EXCEPT ![L.currentEnv].users =
                                     UpsertUser(@, L.userID, L.encryptedPassword,
                                                L.accessToken)]]
                   /\ Exit(0, "none")
              ELSE /\ Exit(0, "SaveCredentials")
                   /\ UNCHANGED cacheFile
    /\ UNCHANGED << appFile, keyring, now, runs, L, sel, kbd, rpcLog, srv, start >>

\* mutant of saveCredentials: the password is saved as typed
saveCredentialsPlaintext ==
    /\ pc = "saveCredentials"
    /\ IF cacheFile.status = "malformed"
       THEN /\ Exit(0, "SaveCredentials")
            /\ UNCHANGED cacheFile
       ELSE \E writeOk \in BOOLEAN :
              IF writeOk
              THEN /\ cacheFile' =
                        [status |-> "ok",
                         envs |-> [cacheFile.envs EXCEPT ![L.currentEnv].users =
                                     UpsertUser(@, L.userID, L.password,
                                                L.newAccessToken)]]
                   /\ Exit(0, "none")
              ELSE /\ Exit(0, "SaveCredentials")
                   /\ UNCHANGED cacheFile
    /\ UNCHANGED << appFile, keyring, now, runs, L, sel, kbd, rpcLog, srv, start >>

saveCredentials ==
    /\ pc = "saveCredentials"
    /\ IF cacheFile.status = "malformed"
       THEN /\ Exit(0, "SaveCredentials")
            /\ UNCHANGED cacheFile
       ELSE \E writeOk \in BOOLEAN :
              IF writeOk
              THEN /\ cacheFile' =
                        [status |-> "ok",
                         envs |-> [cacheFile.envs EXCEPT ![L.currentEnv].users =
                                     UpsertUser(@, L.userID, L.encryptedPassword,
                                                L.newAccessToken)]]
                   /\ Exit(0, "none")
              ELSE /\ Exit(0, "SaveCredentials")
                   /\ UNCHANGED cacheFile
    /\ UNCHANGED << appFile, keyring, now, runs, L, sel, kbd, rpcLog, srv, start >>

(***************************************************************************)
(* The next invocation of `cfctl login`                                    *)
(***************************************************************************)
StartRun ==
    /\ pc = "exited"
    /\ runs < MaxRuns
    /\ runs' = runs + 1
    /\ \E d \in ClockSteps : now' = now + d
    /\ pc' = "executeLogin"
    /\ exitCode' = -1
    /\ failure' = "none"
    /\ \E u \in UrlFlags : L' = [L0 EXCEPT !.providedUrl = u]
    /\ sel' = Sel0
    /\ kbd' = 0
    /\ rpcLog' = << >>
    /\ srv' = NoAccount
    /\ start' = [app |-> appFile, cache |-> cacheFile]
    /\ UNCHANGED << appFile, cacheFile, keyring >>

Next ==
    \/ executeLogin
    \/ executeAppLogin
    \/ loadEnvironmentConfig
    \/ loadCachedUsers
    \/ promptUserSelectionKey(NavKeys)
    \/ useSelectedUser
    \/ promptCredentials
    \/ checkEnvironmentName
    \/ fetchDomainID
    \/ issueToken
    \/ encryptPassword
    \/ fetchWorkspaces
    \/ fetchDomainIDAndRole
    \/ selectScopeOrWorkspaceOpen
    \/ selectScopeOrWorkspaceKey(NavKeys)
    \/ selectWorkspaceOnlyOpen
    \/ selectWorkspaceOnlyKey(NavKeys)
    \/ grantToken
    \/ saveCredentials
    \/ StartRun

Spec == Init /\ [][Next]_vars

(***************************************************************************)
(* The selectors on lists longer than a page                               *)
(*                                                                         *)
(* SelectorSpec starts a login run where a list selector has just opened   *)
(* the keyboard: promptUserSelection on the cached users of the            *)
(* environment (login.go 305), or selectWorkspaceOnly on the workspaces    *)
(* fetchWorkspaces returned to a WORKSPACE_OWNER (login.go 417).  Its keys *)
(* are all the keys the selectors distinguish.                             *)
(***************************************************************************)

\* longest search term and longest numeric buffer typed
MaxSearchLen == 2
MaxDigits == 2

\* n cached users "dev3", "Dev6", "ops1", ...: every third one matches "d"
SelLabel(i) ==
    IF i % 3 = 0
    THEN << (IF i % 2 = 0 THEN 68 ELSE 100), 101, 118 >> \o Itoa(i)
    ELSE << 111, 112, 115 >> \o Itoa(i)
SelUsers(n) == [i \in 1..n |-> User(SelLabel(i), CipherOf(Pw1, IV1), FreshTok)]
SelWorkspaces(n) == [i \in 1..n |-> [workspace_id |-> ToString(i), name |-> SelLabel(i)]]
SelUserLists == {SelUsers(2), SelUsers(11)}
SelWsLists == {SelWorkspaces(2), SelWorkspaces(31)}

\* characters typed into a search ('D', and 'q', which is also a command key)
\* and into the numeric buffer
SearchChars == {68, 113}
DigitChars == {48, 49, 55}
SelKeys ==
    {KeyEv("Enter"), KeyEv("Esc"), KeyEv("Backspace")}
    \cup {CharEv(c) : c \in {106, 107, 108, 104, 47, 113, 81} \cup SearchChars
                             \cup DigitChars}

\* the keys typed in the current mode, within the two length bounds
KeyAllowed(s, ev) ==
    IF s.searchMode
    THEN ev.char = 0 \/ (ev.char \in SearchChars /\ Len(s.searchTerm) < MaxSearchLen)
    ELSE ev.char \in DigitChars => Len(s.inputBuffer) < MaxDigits

SelectorInit ==
    /\ \/ \E users \in SelUserLists :
            /\ InitFiles(EnvDevAcmeUser, EpMain, users, << >>, "ok")
            /\ L = [L0 EXCEPT !.currentEnv = EnvDevAcmeUser, !.providedUrl = EpIdentity,
                              !.users = users]
            /\ pc = "promptUserSelection"
            /\ rpcLog = << >>
            /\ srv = NoAccount
       \/ \E ws \in SelWsLists :
            /\ InitFiles(EnvDevAcmeUser, EpMain, << >>, << >>, "ok")
            /\ L = [L0 EXCEPT !.currentEnv = EnvDevAcmeUser, !.providedUrl = EpIdentity,
                              !.userID = Alice, !.password = Pw1, !.credPrompts = 1,
                              !.domainID = DomainIdOf(Acme),
                              !.accessToken = AccessTok, !.refreshToken = RefreshTok,
                              !.encryptedPassword = CipherOf(Pw1, IV1),
                              !.workspaces = ws, !.roleType = "WORKSPACE_OWNER",
                              !.scope = determineScope("WORKSPACE_OWNER")]
            /\ pc = "wsSelect"
            /\ rpcLog = << Call("resolveDomain", TRUE, [name |-> Acme]),
                           Call("issueToken", TRUE,
                                [userID |-> Alice, password |-> Pw1,
                                 domainID |-> DomainIdOf(Acme)]),
                           Call("listWorkspaces", TRUE, [accessToken |-> AccessTok]),
                           Call("whoAmI", TRUE, [accessToken |-> AccessTok]) >>
            /\ srv = [role |-> "WORKSPACE_OWNER", workspaces |-> ws]
    /\ keyring = StoredKey(Key1)
    /\ now = Clock0
    /\ runs = 1
    /\ exitCode = -1
    /\ failure = "none"
    /\ sel = Sel0
    /\ kbd = 1
    /\ start = [app |-> appFile, cache |-> cacheFile]

SelectorUserKey ==
    \E ev \in SelKeys : KeyAllowed(sel, ev) /\ promptUserSelectionKey({ev})

SelectorWorkspaceKey ==
    \E ev \in SelKeys : KeyAllowed(sel, ev) /\ selectWorkspaceOnlyKey({ev})

SelectorNext == SelectorUserKey \/ SelectorWorkspaceKey

SelectorSpec == SelectorInit /\ [][SelectorNext]_vars

(***************************************************************************)
(* cfctl config: init, environment and endpoint (config.go)                *)
(***************************************************************************)

UserSuffix == << 45, 117, 115, 101, 114 >>                  \* "-user"

\* the first and the last position at which sub starts in s, 0 if none
IndexSub(s, sub) ==
    LET hits == {i \in 1..(Len(s) - Len(sub) + 1) : SubSeq(s, i, i + Len(sub) - 1) = sub}
    IN  IF hits = {} THEN 0 ELSE CHOOSE i \in hits : \A j \in hits : i <= j

LastIndexSub(s, sub) ==
    LET hits == {i \in 1..(Len(s) - Len(sub) + 1) : SubSeq(s, i, i + Len(sub) - 1) = sub}
    IN  IF hits = {} THEN 0 ELSE CHOOSE i \in hits : \A j \in hits : i >= j

\* url.Parse(u).Hostname() of u = urlStr, or "https://" + urlStr when urlStr
\* has no "://" (config.go 753-760, 905-912), for u of the form
\* scheme://host[:port][/path]
Hostname(urlStr) ==
    LET sep == << 58, 47, 47 >>                                  \* "://"
        u == IF Contains(urlStr, sep) THEN urlStr
             ELSE << 104, 116, 116, 112, 115, 58, 47, 47 >> \o urlStr   \* "https://"
        rest == SubSeq(u, IndexSub(u, sep) + Len(sep), Len(u))
        ends == {i \in 1..Len(rest) : rest[i] \in {47, 58, 63, 35}}   \* / : ? #
        stop == IF ends = {} THEN Len(rest) + 1
                ELSE CHOOSE i \in ends : \A j \in ends : i <= j
    IN  SubSeq(rest, 1, stop - 1)

\* parseEnvNameFromURL (config.go 752-794): ^(.*?)\.spaceone takes the text
\* before the first ".spaceone", (.*)\.console\.dev\.spaceone\.dev the text
\* before the last ".console.dev.spaceone.dev"
parseEnvNameFromURL(urlStr) ==
    LET hostname == Hostname(urlStr)
        prdSuffix == << 115, 112, 97, 99, 101, 111, 110, 101, 46, 109, 101, 103, 97, 122, 111, 110, 101, 46, 105, 111 >>   \* "spaceone.megazone.io"
        devSuffix == << 99, 111, 110, 115, 111, 108, 101, 46, 100, 101, 118, 46, 115, 112, 97, 99, 101, 111, 110, 101, 46, 100, 101, 118 >>   \* "console.dev.spaceone.dev"
        stgSuffix == << 99, 111, 110, 115, 111, 108, 101, 46, 115, 116, 103, 46, 115, 112, 97, 99, 101, 111, 110, 101, 46, 100, 101, 118 >>   \* "console.stg.spaceone.dev"
        prd == IndexSub(hostname, << 46, 115, 112, 97, 99, 101, 111, 110, 101 >>)   \* ".spaceone"
        dev == LastIndexSub(hostname, << Dot >> \o devSuffix)
        stg == LastIndexSub(hostname, << Dot >> \o stgSuffix)
    IN  IF HasSuffix(hostname, prdSuffix) /\ prd # 0
        THEN Ok(<< 112, 114, 100, 45 >> \o SubSeq(hostname, 1, prd - 1))
        ELSE IF HasSuffix(hostname, devSuffix)
        THEN IF dev # 0 THEN Ok(<< 100, 101, 118, 45 >> \o SubSeq(hostname, 1, dev - 1)) ELSE Err
        ELSE IF HasSuffix(hostname, stgSuffix)
        THEN IF stg # 0 THEN Ok(<< 115, 116, 103, 45 >> \o SubSeq(hostname, 1, stg - 1)) ELSE Err
        ELSE Err

\* "grpc+ssl://<service>.api.<prefix>.spaceone.dev:443"
ServiceEndpoint(service, prefix) ==
    << 103, 114, 112, 99, 43, 115, 115, 108, 58, 47, 47 >> \o service \o << 46, 97, 112, 105, 46 >> \o prefix \o << 46, 115, 112, 97, 99, 101, 111, 110, 101, 46, 100, 101, 118, 58, 52, 52, 51 >>

\* constructEndpoint (config.go 904-935)
constructEndpoint(baseURL) ==
    LET hostname == Hostname(baseURL)
        service == Split(hostname, Dot)[1]
    IN  IF Contains(hostname, << 46, 100, 101, 118, 46, 115, 112, 97, 99, 101, 111, 110, 101, 46, 100, 101, 118 >>)     \* ".dev.spaceone.dev"
        THEN IF service = << >> THEN Err ELSE Ok(ServiceEndpoint(Identity, << 100, 101, 118 >>))
        ELSE IF Contains(hostname, << 46, 115, 116, 103, 46, 115, 112, 97, 99, 101, 111, 110, 101, 46, 100, 101, 118 >>)   \* ".stg.spaceone.dev"
        THEN IF service = << >> THEN Err ELSE Ok(ServiceEndpoint(Identity, << 115, 116, 103 >>))
        ELSE Err

\* strings.ToLower(strings.TrimSpace(response)) == "y" for a response read
\* with fmt.Scanln, which holds no white space
Confirmed(response) == ToLower(response) = << 121 >>

\* an environment that is not in a tier's file; in ConfigSpec the records of
\* the two tiers also hold whether environments.<env> is set, and the cache
\* tier's proxy setting
AbsentApp == [endpoint |-> << >>, proxy |-> FALSE, token |-> << >>, tokens |-> << >>,
              isSet |-> FALSE]
AbsentCache == [endpoint |-> << >>, token |-> << >>, users |-> << >>, proxy |-> FALSE,
                isSet |-> FALSE]

\* inputs of the config commands
\* no URL, "https://acme.console.dev.spaceone.dev/", "acme.spaceone.megazone.io"
InitUrls == {<< >>, << 104, 116, 116, 112, 115, 58, 47, 47, 97, 99, 109, 101, 46, 99, 111, 110, 115, 111, 108, 101, 46, 100, 101, 118, 46, 115, 112, 97, 99, 101, 111, 110, 101, 46, 100, 101, 118, 47 >>,
             << 97, 99, 109, 101, 46, 115, 112, 97, 99, 101, 111, 110, 101, 46, 109, 101, 103, 97, 122, 111, 110, 101, 46, 105, 111 >>}
\* no name, "dev-acme", "local"
LocalNames == {<< >>, << 100, 101, 118, 45, 97, 99, 109, 101 >>, << 108, 111, 99, 97, 108 >>}
\* the names init can produce from these inputs ("prd-acme-*" is never stored:
\* constructEndpoint knows no prd hosts)
ConfigEnvNames ==
    {b \o s : b \in {<< 100, 101, 118, 45, 97, 99, 109, 101 >>, << 108, 111, 99, 97, 108 >>, << 112, 114, 100, 45, 97, 99, 109, 101 >>},
              s \in {AppSuffix, UserSuffix}}
\* --service: not given, "identity", "inventory"
Services == {<< >>, Identity, << 105, 110, 118, 101, 110, 116, 111, 114, 121 >>}
Answers == {<< 89 >>, << 110 >>}       \* "Y", "n"
\* which of the two files can be written while a command runs
Writable == [app : BOOLEAN, cache : BOOLEAN]

EmptyApp == [status |-> "ok", environment |-> << >>,
             envs |-> [e \in ConfigEnvNames |-> AbsentApp]]
EmptyCache == [status |-> "ok", envs |-> [e \in ConfigEnvNames |-> AbsentCache]]

\* loadConfig (config.go 689-725): a missing file is created with no
\* environment and read back; an unreadable file is an error
loadConfig(file, empty, writable) ==
    IF file.status = "missing"
    THEN IF writable THEN Ok(empty) ELSE Err
    ELSE IF file.status = "ok" THEN Ok(file) ELSE Err

\* what a command leaves: the two files and the message it ended with
Outcome(app, cache, msg) == [app |-> app, cache |-> cache, msg |-> msg]

\* updateConfig (config.go 797-880).  WriteConfig writes the whole file, so
\* both writes of the app mode go to the same file; removeEnvironmentField
\* rewrites the cache file without an "environment" key, which it never has
updateConfig(app, cache, envName, baseURL, mode, response, wr) ==
    LET loaded == IF mode = "app" THEN loadConfig(app, EmptyApp, wr.app)
                  ELSE loadConfig(cache, EmptyCache, wr.cache)
        v == loaded.val
        kept(f) == IF mode = "app" THEN Outcome(f, cache, "") ELSE Outcome(app, f, "")
        end(f, msg) == [kept(f) EXCEPT !.msg = msg]
        newEndpoint == IF baseURL # << >> THEN constructEndpoint(baseURL)
                       ELSE Ok(<< 103, 114, 112, 99, 58, 47, 47, 108, 111, 99, 97, 108, 104, 111, 115, 116, 58, 53, 48, 48, 53, 49 >>)   \* "grpc://localhost:50051"
        set == [v EXCEPT !.envs[envName] =
                   [@ EXCEPT !.endpoint = newEndpoint.val, !.token = << >>,
                             !.proxy = Contains(newEndpoint.val, Identity),
                             !.isSet = TRUE]]
    IN  IF ~loaded.ok THEN Outcome(app, cache, "LoadConfig")
        ELSE IF v.envs[envName].isSet /\ ~Confirmed(response)
        THEN end(v, "Skipped")
        ELSE IF ~newEndpoint.ok THEN end(v, "ConstructEndpoint")
        ELSE IF mode = "app"
        THEN IF wr.app THEN end([set EXCEPT !.environment = envName], "Initialized")
             ELSE end(v, "WriteConfig")
        ELSE IF wr.cache THEN end(set, "Initialized")
             ELSE end(v, "WriteConfig")

\* configInitURLCmd (config.go 46-84)
configInitURLCmd(app, cache, urlStr, appFlag, userFlag, response, wr) ==
    LET envName == parseEnvNameFromURL(urlStr)
    IN  IF urlStr = << >> THEN Outcome(app, cache, "UrlRequired")
        ELSE IF ~appFlag /\ ~userFlag THEN Outcome(app, cache, "FlagRequired")
        ELSE IF ~envName.ok THEN Outcome(app, cache, "InvalidURL")
        ELSE IF appFlag
        THEN updateConfig(app, cache, envName.val \o AppSuffix, urlStr, "app", response, wr)
        ELSE updateConfig(app, cache, envName.val \o UserSuffix, urlStr, "user", response, wr)

\* configInitLocalCmd (config.go 87-120)
configInitLocalCmd(app, cache, localEnv, appFlag, userFlag, response, wr) ==
    IF localEnv = << >> THEN Outcome(app, cache, "NameRequired")
    ELSE IF ~appFlag /\ ~userFlag THEN Outcome(app, cache, "FlagRequired")
    ELSE IF appFlag
    THEN updateConfig(app, cache, localEnv \o AppSuffix, << >>, "app", response, wr)
    ELSE updateConfig(app, cache, localEnv \o UserSuffix, << >>, "user", response, wr)

\* envCmd (config.go 123-288): --switch, then --remove, then listing
envCmd(app, cache, switchEnv, removeEnv, response, wr) ==
    LET appL == loadConfig(app, EmptyApp, wr.app)
        userL == loadConfig(cache, EmptyCache, wr.cache)
        appV == appL.val
        userV == userL.val
        currentEnv == appV.environment
        inApp(e) == appV.envs[e].isSet
        inUser(e) == userV.envs[e].isSet
        appRemoved == [appV EXCEPT !.envs[removeEnv] = AbsentApp]
        userRemoved == [userV EXCEPT !.envs[removeEnv] = AbsentCache]
    IN  IF ~appL.ok THEN Outcome(app, cache, "LoadConfig")
        ELSE IF ~userL.ok THEN Outcome(appV, cache, "LoadConfig")
        ELSE IF switchEnv # << >>
        THEN IF ~inApp(switchEnv) /\ ~inUser(switchEnv)
             THEN Outcome(appV, userV, "NotFound")
             ELSE IF wr.app
             THEN Outcome([appV EXCEPT !.environment = switchEnv], userV, "Switched")
             ELSE Outcome(appV, userV, "WriteConfig")
        ELSE IF removeEnv # << >>
        THEN IF ~inApp(removeEnv) /\ ~inUser(removeEnv)
             THEN Outcome(appV, userV, "NotFound")
             ELSE IF ~Confirmed(response)
             THEN Outcome(appV, userV, "Canceled")
             ELSE IF inApp(removeEnv)
             THEN IF ~wr.app THEN Outcome(appV, userV, "WriteConfig")
                  ELSE IF currentEnv = removeEnv
                  THEN Outcome([appRemoved EXCEPT !.environment = << >>], userV, "Removed")
                  ELSE Outcome(appRemoved, userV, "Removed")
             ELSE IF ~wr.cache THEN Outcome(appV, userV, "WriteConfig")
                  ELSE IF currentEnv = removeEnv
                  THEN IF wr.app
                       THEN Outcome([appV EXCEPT !.environment = << >>], userRemoved,
                                    "Removed")
                       ELSE Outcome(appV, userRemoved, "WriteConfig")
                  ELSE Outcome(appV, userRemoved, "Removed")
        ELSE Outcome(appV, userV, "Listed")

\* configEndpointCmd (config.go 355-463) with --service given; without it the
\* services are listed and no file is changed beyond what loadConfig creates
configEndpointCmd(app, cache, service, wr) ==
    LET appL == loadConfig(app, EmptyApp, wr.app)
        appV == appL.val
        cacheL == loadConfig(cache, EmptyCache, wr.cache)
        cacheV == cacheL.val
        currentEnv == appV.environment
        prefix == IF HasPrefix(currentEnv, << 100, 101, 118, 45 >>) THEN << 100, 101, 118 >>
                  ELSE IF HasPrefix(currentEnv, << 115, 116, 103, 45 >>) THEN << 115, 116, 103 >>
                  ELSE << >>
        newEndpoint == ServiceEndpoint(service, prefix)
        set == [cacheV EXCEPT !.envs[currentEnv] =
                   [@ EXCEPT !.endpoint = newEndpoint, !.proxy = (service = Identity),
                             !.isSet = TRUE]]
    IN  IF ~appL.ok THEN Outcome(app, cache, "LoadConfig")
        ELSE IF service = << >> THEN Outcome(appV, cache, "ServiceRequired")
        ELSE IF ~cacheL.ok THEN Outcome(appV, cache, "LoadConfig")
        ELSE IF currentEnv = << >> THEN Outcome(appV, cacheV, "NoEnvironment")
        ELSE IF prefix = << >> THEN Outcome(appV, cacheV, "UnsupportedPrefix")
        ELSE IF ~wr.cache THEN Outcome(appV, cacheV, "WriteConfig")
        ELSE Outcome(appV, set, "Updated")

\* one run of a config command: the files are all it changes
ConfigRun(r) ==
    /\ appFile' = r.app
    /\ cacheFile' = r.cache
    /\ UNCHANGED << keyring, now, runs, pc, exitCode, failure, L, sel, kbd, rpcLog,
                    srv, start >>

configInitURLRun ==
    \E urlStr \in InitUrls, appFlag \in BOOLEAN, userFlag \in BOOLEAN,
       response \in Answers, wr \in Writable :
        ConfigRun(configInitURLCmd(appFile, cacheFile, urlStr, appFlag, userFlag,
                                   response, wr))

configInitLocalRun ==
    \E localEnv \in LocalNames, appFlag \in BOOLEAN, userFlag \in BOOLEAN,
       response \in Answers, wr \in Writable :
        ConfigRun(configInitLocalCmd(appFile, cacheFile, localEnv, appFlag, userFlag,
                                     response, wr))

\* values of --switch and --remove: one of them, none, or both
EnvFlags ==
    {[switch |-> e, remove |-> << >>] : e \in ConfigEnvNames \cup {<< >>}}
    \cup {[switch |-> << >>, remove |-> e] : e \in ConfigEnvNames}
    \cup {[switch |-> EnvDevAcmeUser, remove |-> EnvDevAcmeApp]}

envRun ==
    \E flags \in EnvFlags, response \in Answers, wr \in Writable :
        ConfigRun(envCmd(appFile, cacheFile, flags.switch, flags.remove, response, wr))

configEndpointRun ==
    \E service \in Services, wr \in Writable :
        ConfigRun(configEndpointCmd(appFile, cacheFile, service, wr))

\* a fresh installation: each file is there with no environment, or missing
ConfigInit ==
    /\ appFile \in {EmptyApp, [EmptyApp EXCEPT !.status = "missing"]}
    /\ cacheFile \in {EmptyCache, [EmptyCache EXCEPT !.status = "missing"]}
    /\ keyring = NoKey
    /\ now = Clock0
    /\ runs = 1
    /\ pc = "config"
    /\ exitCode = -1
    /\ failure = "none"
    /\ L = L0
    /\ sel = Sel0
    /\ kbd = 0
    /\ rpcLog = << >>
    /\ srv = NoAccount
    /\ start = [app |-> appFile, cache |-> cacheFile]

ConfigNext == configInitURLRun \/ configInitLocalRun \/ envRun \/ configEndpointRun

ConfigSpec == ConfigInit /\ [][ConfigNext]_vars

(***************************************************************************)
(* Properties                                                              *)
(***************************************************************************)

\* a successful call of this name is in the run's log
Succeeded(name) == \E i \in 1..Len(rpcLog) : rpcLog[i].call = name /\ rpcLog[i].ok
Called(name) == \E i \in 1..Len(rpcLog) : rpcLog[i].call = name

\* some environment's cached-user list differs from what the run started with
UsersChanged ==
    \E e \in EnvNames : cacheFile.envs[e].users # start.cache.envs[e].users

UserLogin == L.currentEnv # << >> /\ ~IsAppEnv(L.currentEnv)

\* C1: the cached users are written only after resolveDomain, issueToken,
\* whoAmI and grantToken all succeeded in this run; a run that ends with a
\* non-zero exit status (failed or cancelled) leaves every environment's
\* cached-user list as it was.
C1_PersistOnlyAfterFullChain ==
    /\ UsersChanged =>
          /\ \A n \in {"resolveDomain", "issueToken", "whoAmI", "grantToken"} : Succeeded(n)
          /\ pc = "exited" /\ exitCode = 0 /\ failure = "none"
    /\ (pc = "exited" /\ (exitCode # 0 \/ failure # "none")) => ~UsersChanged

C1_Witness == pc = "exited" /\ UsersChanged /\ UserLogin

\* C2 (as claimed): a failed remote call is the last thing the run does: the
\* run is over with a non-zero exit, no later call, no selector, no write.
C2_RpcFailureEndsRun ==
    \A i \in 1..Len(rpcLog) :
        ~rpcLog[i].ok =>
            /\ i = Len(rpcLog)
            /\ pc = "exited" /\ exitCode # 0
            /\ ~UsersChanged

\* C3 (as claimed): every run that reported an error ends with a non-zero
\* exit status.
C3_ErrorsExitNonZero ==
    (pc = "exited" /\ failure # "none") => exitCode # 0

\* C4: in a user login, an environment name with fewer than 3 '-'-separated
\* segments never leads to a remote call and never to a successful run; with
\* 3 or more segments the first call is resolveDomain and every resolveDomain
\* call carries the second segment ("dev-acme-user" gives "acme").
SecondSegmentOf(env) ==
    CASE env = EnvDevAcmeUser -> Acme
      [] env = EnvFourUser -> << 98, 99 >>     \* "bc"
      [] OTHER -> << >>

C4_EnvironmentNameSegments ==
    UserLogin =>
        LET env == appFile.environment
            segments == Len(Split(env, Dash))
        IN  /\ env \in {EnvProd, EnvDevUser} => segments < 3
            /\ env \in {EnvDevAcmeUser, EnvFourUser} => segments >= 3
            /\ segments < 3 =>
                  /\ rpcLog = << >>
                  /\ pc = "exited" => exitCode # 0
            /\ (segments >= 3 /\ rpcLog # << >>) =>
                  /\ rpcLog[1].call = "resolveDomain"
                  /\ \A i \in 1..Len(rpcLog) :
                        rpcLog[i].call = "resolveDomain" =>
                            rpcLog[i].args.name = SecondSegmentOf(env)

C4_Witness ==
    /\ appFile.environment = EnvDevAcmeUser
    /\ Len(rpcLog) >= 2
    /\ rpcLog[1].call = "resolveDomain" /\ rpcLog[1].args.name = Acme

C4_WitnessInvalidName == failure = "InvalidEnvironmentName" /\ rpcLog = << >>

\* C5 (as claimed): when a DOMAIN_ADMIN chooses Domain, listWorkspaces is not
\* called in that run, and an admin account without workspaces is not turned
\* away for having none.
C5_DomainSkipsWorkspaceResolution ==
    /\ L.domainChosen => ~Called("listWorkspaces")
    /\ srv.role = "DOMAIN_ADMIN" => failure # "NoAccessibleWorkspace"

\* C6: when roleType is DOMAIN_ADMIN and Domain is chosen, the next step is
\* grantToken, and its request has scope DOMAIN and no workspace id.
C6_DomainChoiceGrantsDomainScope ==
    L.domainChosen =>
        /\ L.roleType = "DOMAIN_ADMIN"
        /\ pc \in {"grantToken", "saveCredentials", "exited"}
        /\ pc # "grantToken" => Called("grantToken")
        /\ \A i \in 1..Len(rpcLog) :
              rpcLog[i].call = "grantToken" =>
                  /\ rpcLog[i].args.scope = "DOMAIN"
                  /\ rpcLog[i].args.workspace_id = ""
                  /\ ~rpcLog[i].args.sendsWorkspaceId

C6_Witness == L.domainChosen /\ Succeeded("grantToken")

\* C7: when the account's role is not DOMAIN_ADMIN and listWorkspaces returns
\* no item, the run is over right there: failed with NoAccessibleWorkspace,
\* listWorkspaces the last remote call, no grantToken, nothing written.
ListedNoWorkspace ==
    /\ srv.role # "" /\ srv.role # "DOMAIN_ADMIN"
    /\ srv.workspaces = << >>
    /\ Succeeded("listWorkspaces")

C7_NoWorkspaceFails ==
    ListedNoWorkspace =>
        /\ pc = "exited" /\ exitCode # 0 /\ failure = "NoAccessibleWorkspace"
        /\ rpcLog[Len(rpcLog)].call = "listWorkspaces"
        /\ ~Called("grantToken")
        /\ ~UsersChanged

C7_Witness == ListedNoWorkspace /\ srv.role = "WORKSPACE_OWNER"

\* C8: every cached-user list holds at most one entry per userid, and a login
\* as a userid the list already held leaves the list's length and order as
\* they were, every other user's entry untouched.
UniqueIds(users) ==
    \A i, j \in 1..Len(users) : users[i].userid = users[j].userid => i = j

C8_SameUserNeverGrowsList ==
    \A e \in EnvNames :
        LET old == start.cache.envs[e].users
            new == cacheFile.envs[e].users
        IN  /\ UniqueIds(new)
            /\ (\E i \in 1..Len(old) : old[i].userid = L.userID) =>
                  /\ Len(new) = Len(old)
                  /\ \A i \in 1..Len(old) :
                        /\ new[i].userid = old[i].userid
                        /\ old[i].userid # L.userID => new[i] = old[i]

C8_Witness ==
    /\ pc = "exited" /\ UsersChanged
    /\ \E i \in 1..Len(start.cache.envs[L.currentEnv].users) :
          start.cache.envs[L.currentEnv].users[i].userid = L.userID
    /\ Len(cacheFile.envs[L.currentEnv].users) = 2

\* C9: every app-token list is duplicate-free; a successful app login leaves
\* the list unchanged when it already held the entered token and appends the
\* token otherwise, and saving the same token once more changes nothing.
NoDuplicates(seq) == \A i, j \in 1..Len(seq) : seq[i] = seq[j] => i = j

C9_AppTokensDeduplicated ==
    /\ \A e \in EnvNames : NoDuplicates(appFile.envs[e].tokens)
    /\ (pc = "exited" /\ failure = "none" /\ L.enteredToken # << >>) =>
          LET old == start.app.envs[L.currentEnv].tokens
              new == appFile.envs[L.currentEnv].tokens
          IN  /\ IF \E i \in 1..Len(old) : old[i] = L.enteredToken
                 THEN new = old
                 ELSE new = Append(old, L.enteredToken)
              /\ saveAppToken(appFile, L.currentEnv, L.enteredToken) = appFile

C9_Witness ==
    /\ pc = "exited" /\ failure = "none" /\ L.enteredToken # << >>
    /\ \E i \in 1..Len(start.app.envs[L.currentEnv].tokens) :
          start.app.envs[L.currentEnv].tokens[i] = L.enteredToken
    /\ runs = 2

\* C10: once an existing cached user with an unexpired stored token has been
\* selected, no password was asked for, and issueToken is called with that
\* user's id and the decryption of the stored encrypted password.
ReusedUser ==
    /\ L.userSelection \in 1..Len(L.users)
    /\ ~isTokenExpired(L.users[L.userSelection].token, now)

C10_UnexpiredUserReusesPassword ==
    ReusedUser =>
        /\ L.pwPrompts = 0 /\ L.credPrompts = 0
        /\ \A i \in 1..Len(rpcLog) :
              rpcLog[i].call = "issueToken" =>
                  /\ rpcLog[i].args.userID = L.users[L.userSelection].userid
                  /\ rpcLog[i].args.password =
                        decrypt(L.users[L.userSelection].password, keyring, RndOk).val

C10_Witness ==
    /\ ReusedUser
    /\ Succeeded("issueToken")
    /\ runs = 2
    /\ L.users[L.userSelection] \notin
          {u \in UNION {{l[i] : i \in 1..Len(l)} : l \in InitUserLists} : TRUE}

\* the run is past the credential acquisition with a cached user selected
PastSelection ==
    pc \in {"checkEnvironmentName", "fetchDomainID", "issueToken", "encryptPassword",
            "fetchWorkspaces", "fetchDomainIDAndRole", "selectScopeOrWorkspace",
            "selectWorkspaceOnly", "grantToken", "saveCredentials"}

ExpiredUserSelected ==
    /\ L.userSelection \in 1..Len(L.users)
    /\ isTokenExpired(L.users[L.userSelection].token, now)

\* C11: when a cached user whose stored token is expired is selected, the
\* password is asked for once and the run goes on only with a password equal
\* to the decrypted stored one; a mismatch ends the run with a non-zero exit,
\* no remote call made and no cached-user list changed.
C11_ExpiredTokenRequiresMatchingPassword ==
    /\ (PastSelection /\ ExpiredUserSelected) =>
          /\ L.pwPrompts = 1 /\ L.credPrompts = 0
          /\ L.password = decrypt(L.users[L.userSelection].password, keyring, RndOk).val
    /\ failure = "PasswordMismatch" =>
          /\ ExpiredUserSelected /\ L.pwPrompts = 1
          /\ L.password # decrypt(L.users[L.userSelection].password, keyring, RndOk).val
          /\ pc = "exited" /\ exitCode # 0
          /\ rpcLog = << >>
          /\ ~UsersChanged

C11_Witness ==
    /\ failure = "PasswordMismatch"
    /\ L.users[L.userSelection].userid = Bob /\ L.password = Pw1

\* C12 (as claimed): a failure to decrypt the selected user's stored password
\* does not end the run: the run is at, or past, a fresh credential prompt.
C12_DecryptFailureDegradesToPrompt ==
    failure = "Decrypt" =>
        /\ pc # "exited"
        /\ (pc = "promptCredentials" \/ L.credPrompts >= 1)

\* the stored password is not readable under the key now in the key store:
\* it was encrypted under another key
StaleUserSelected ==
    /\ L.userSelection \in 1..Len(L.users)
    /\ keyring.found
    /\ decrypt(L.users[L.userSelection].password, keyring, RndOk).val \notin Passwords
    /\ \E k \in {Key1, Key2} :
          decrypt(L.users[L.userSelection].password, StoredKey(k), RndOk).val \in Passwords

\* C13 (as claimed): after the vault key was lost and replaced, a selected
\* cached user whose password was encrypted under the old key is asked for
\* fresh credentials, and issueToken never receives a value decrypted under
\* a key other than the one the password was encrypted with.
C13_LostKeyInvalidatesCachedPasswords ==
    (StaleUserSelected /\ PastSelection) =>
        /\ L.credPrompts >= 1
        /\ \A i \in 1..Len(rpcLog) :
              rpcLog[i].call = "issueToken" => rpcLog[i].args.password \in Passwords

\* the key stores and the outcomes of one getEncryptionKey call
VaultStores == {NoKey, StoredKey(Key1), StoredKey(Key2)}
VaultRnd == [access : {"ok", "error"}, newKey : {Key1, Key2}, setOk : BOOLEAN,
             iv : {IV1}]

GetEncryptionKeyContract ==
    \A kr \in VaultStores, rnd \in VaultRnd :
        LET r == getEncryptionKey(kr, rnd)
        IN  /\ (~kr.found /\ r.ok) =>
                  /\ r.key = rnd.newKey /\ Len(r.key) * 8 = 256
                  /\ r.kr = StoredKey(r.key)
                  /\ \A later \in VaultRnd :
                        later.access = "ok" =>
                            getEncryptionKey(r.kr, later) =
                                [ok |-> TRUE, key |-> r.key, kr |-> r.kr]
            /\ (~kr.found /\ rnd.access = "ok" /\ ~rnd.setOk) =>
                  ~r.ok /\ r.key = << >> /\ r.kr = kr
            /\ (~kr.found /\ rnd.access = "ok" /\ rnd.setOk) => r.ok
            /\ (kr.found /\ rnd.access = "ok") =>
                  r.ok /\ r.kr = kr /\ StoredKey(r.key) = kr

\* C14: with no key in the key store, getEncryptionKey returns a new 256-bit
\* key only after storing it, every later call on the unchanged store returns
\* the identical key, and when storing fails no key is returned; the key store
\* of the program is always empty or holds such a key.
C14_KeyCreatedOnceAndStable ==
    /\ keyring \in VaultStores
    /\ GetEncryptionKeyContract

\* the first vault call of a run created the key and a later call read it back
C14_Witness ==
    /\ runs = 1 /\ keyring = StoredKey(Key2)
    /\ pc = "fetchWorkspaces"
    /\ decrypt(L.encryptedPassword, keyring, RndOk).val = L.password

\* printable-ASCII passwords of 0, 1, 2, 3, 16, 17 and 33 characters
RoundTripPasswords ==
    { << >>, << 32 >>, << 126, 33 >>, Pw1,
      [i \in 1..16 |-> 32 + i], [i \in 1..17 |-> 127 - i],
      [i \in 1..33 |-> 32 + ((i * 37) % 95)] }

EncryptDecryptRoundTrip ==
    \A p \in RoundTripPasswords, key \in {Key1, Key2}, iv \in IVs, iv2 \in IVs :
        LET e == encrypt(p, StoredKey(key), [RndOk EXCEPT !.iv = iv])
            d == decrypt(e.val, StoredKey(key), [RndOk EXCEPT !.iv = iv2])
        IN  /\ e.ok /\ e.kr = StoredKey(key)
            /\ d.ok /\ d.val = p /\ d.kr = StoredKey(key)
            /\ e.val # p

\* C15: under a fixed vault key decrypt(encrypt(p)) = p for every password of
\* the bounded set (the empty one included) and every initialization vector;
\* in the login, the password just encrypted decrypts to the password held.
C15_EncryptDecryptRoundTrip ==
    /\ EncryptDecryptRoundTrip
    /\ pc = "fetchWorkspaces" =>
          decrypt(L.encryptedPassword, keyring, RndOk) =
              [ok |-> TRUE, val |-> L.password, kr |-> keyring]

C15_Witness ==
    /\ pc = "fetchWorkspaces" /\ L.password = Pw2
    /\ keyring = StoredKey(Key1)
    /\ L.encryptedPassword = CipherOf(Pw2, IV2)

\* a token h.<middle>.s whose middle segment is the raw URL base64 of payload
TokenWithPayload(payload) ==
    << 104, Dot >> \o B64Encode("url", FALSE, payload) \o << Dot, 115 >>

\* malformed tokens: no, one, two or four segments; a middle segment that is
\* not raw URL base64 ("!!", and "e30=" with padding); a payload that is not
\* JSON ("nope"); a payload without exp ({}) and with a text exp ({"exp":"1"})
MalformedTokens ==
    { << >>, << 104 >>, MalformedTok, << 104, Dot, 112, Dot, 115, Dot, 120 >>,
      << 104, Dot, 33, 33, Dot, 115 >>,
      << 104, Dot, 101, 51, 48, 61, Dot, 115 >>,
      TokenWithPayload(<< 110, 111, 112, 101 >>),
      TokenWithPayload(<< 123, 125 >>),
      TokenWithPayload(ExpPrefix \o << 34, 49, 34, 125 >>) }

MalformedTokensCountAsExpired ==
    \A t \in MalformedTokens, clock \in {0, Clock0, Clock0 + 3600} :
        isTokenExpired(t, clock)

MalformedUserSelected ==
    /\ L.userSelection \in 1..Len(L.users)
    /\ L.users[L.userSelection].token \in MalformedTokens
    /\ pc \notin {"promptUserSelection", "useSelectedUser"}

\* C16: a malformed stored token counts as expired, and selecting a cached
\* user with such a token does not end the run for that reason: the password
\* is asked for again and the run goes on as with an expired token.
C16_MalformedTokenCountsAsExpired ==
    /\ MalformedTokensCountAsExpired
    /\ MalformedUserSelected =>
          /\ L.pwPrompts = 1 /\ L.credPrompts = 0
          /\ (failure = "none" /\ pc # "exited") =>
                L.password = decrypt(L.users[L.userSelection].password, keyring, RndOk).val

C16_Witness == MalformedUserSelected /\ Succeeded("issueToken")

ExpiryBoundary ==
    \A clock \in {Clock0, Clock0 + 3600}, exp \in {Clock0 - 1, Clock0, Clock0 + 1,
                                                   Clock0 + 3599, Clock0 + 3600,
                                                   Clock0 + 7200} :
        /\ isTokenExpired(TokenWithExp(exp), clock) <=> clock > exp
        /\ isTokenExpired(TokenWithExp(clock - 1), clock)
        /\ ~isTokenExpired(TokenWithExp(clock), clock)
        /\ ~isTokenExpired(TokenWithExp(clock + 3600), clock)

\* C17: a well-formed token is expired exactly when the clock is strictly
\* after its exp: exp = now - 1 is expired, exp = now and exp = now + 3600
\* are not; a cached user whose token's exp is not before the clock is
\* logged in without a password prompt.
C17_ExpiredIffStrictlyAfterExp ==
    /\ ExpiryBoundary
    /\ (L.userSelection \in 1..Len(L.users) /\ PastSelection) =>
          LET token == L.users[L.userSelection].token
          IN  /\ token = FreshTok => (L.pwPrompts = 1 <=> now > Clock0 + 3600)
              /\ token = ExpiredTok => (L.pwPrompts = 1 <=> now > Clock0 - 1)

\* the second run starts at the very second the stored token expires
C17_Witness ==
    /\ L.userSelection \in 1..Len(L.users) /\ PastSelection
    /\ L.users[L.userSelection].token = FreshTok
    /\ now = Clock0 + 3600 /\ L.pwPrompts = 0

\* endpoint and token of the current environment are set in both tiers, to
\* different values, and loadEnvironmentConfig has resolved them
BothTiersLoaded ==
    /\ pc = "loadCachedUsers"
    /\ cacheFile.status = "ok"
    /\ appFile.envs[L.currentEnv].token # << >>
    /\ cacheFile.envs[L.currentEnv].token # << >>
    /\ appFile.envs[L.currentEnv].token # cacheFile.envs[L.currentEnv].token
    /\ appFile.envs[L.currentEnv].endpoint # << >>
    /\ cacheFile.envs[L.currentEnv].endpoint # << >>
    /\ appFile.envs[L.currentEnv].endpoint # cacheFile.envs[L.currentEnv].endpoint

\* C18 (as claimed): for a field set to different values in both tiers every
\* resolution yields the application tier's value: getBaseURL, getToken, and
\* the endpoint and token loadEnvironmentConfig resolves.
C18_ApplicationTierTakesPrecedence ==
    BothTiersLoaded =>
        /\ getBaseURL(appFile, cacheFile) = Ok(appFile.envs[L.currentEnv].endpoint)
        /\ getToken(appFile, cacheFile) = Ok(appFile.envs[L.currentEnv].token)
        /\ start.app = appFile /\ L.providedUrl \in
              {appFile.envs[L.currentEnv].endpoint, EpInventory}
        /\ L.token = appFile.envs[L.currentEnv].token

\* C19 (as claimed): a user login that finds the user-cache file malformed
\* fails when it reads the file: it never goes on to the credential prompt
\* as if there were no cached users, and ends with a non-zero exit.
C19_MalformedCacheFileIsFatal ==
    (UserLogin /\ cacheFile.status = "malformed") =>
        /\ pc \in {"loadEnvironmentConfig", "loadCachedUsers", "exited"}
        /\ L.credPrompts = 0
        /\ rpcLog = << >>
        /\ pc = "exited" => exitCode # 0

\* C20: a user login never changes the application-tier file; what it saves
\* goes to the user-cache tier: the entry of the user with the encrypted
\* password and the granted token; no file holds a password as typed.
C20_UserLoginWritesCacheTierOnly ==
    /\ UserLogin => appFile = start.app
    /\ \A e \in EnvNames :
          /\ \A i \in 1..Len(cacheFile.envs[e].users) :
                cacheFile.envs[e].users[i].password \notin Passwords
          /\ appFile.envs[e].token \notin Passwords
          /\ \A i \in 1..Len(appFile.envs[e].tokens) :
                appFile.envs[e].tokens[i] \notin Passwords
    /\ (UserLogin /\ UsersChanged) =>
          /\ \E i \in 1..Len(cacheFile.envs[L.currentEnv].users) :
                cacheFile.envs[L.currentEnv].users[i] =
                    User(L.userID, L.encryptedPassword, L.newAccessToken)
          /\ L.encryptedPassword # L.password
          /\ decrypt(L.encryptedPassword, keyring, RndOk).val = L.password
          /\ \A e \in EnvNames :
                /\ cacheFile.envs[e].endpoint = start.cache.envs[e].endpoint
                /\ cacheFile.envs[e].token = start.cache.envs[e].token
                /\ e # L.currentEnv => cacheFile.envs[e] = start.cache.envs[e]

C20_Witness ==
    /\ UserLogin /\ UsersChanged /\ appFile = start.app
    /\ L.credPrompts = 1

(***************************************************************************)
(* Properties of the selectors (SelectorSpec)                              *)
(***************************************************************************)

LowerChar(c) == IF c >= 65 /\ c <= 90 THEN c + 32 ELSE c

\* the label contains the term, letter case ignored
MatchesLabel(label, term) ==
    \E a \in 1..(Len(label) - Len(term) + 1) :
        \A k \in 1..Len(term) : LowerChar(label[a + k - 1]) = LowerChar(term[k])

InUserSelector == pc \in {"promptUserSelection", "useSelectedUser"}
InWorkspaceSelector == pc \in {"wsSelect", "grantToken"}

NoUserMatches ==
    /\ InUserSelector /\ sel.searchTerm # << >>
    /\ \A i \in 1..Len(L.users) : ~MatchesLabel(L.users[i].userid, sel.searchTerm)

NoWorkspaceMatches ==
    /\ InWorkspaceSelector /\ sel.searchTerm # << >>
    /\ \A i \in 1..Len(L.workspaces) : ~MatchesLabel(L.workspaces[i].name, sel.searchTerm)

\* the 1-based position in the shown list that Enter resolved
WorkspacePosition ==
    IF sel.inputBuffer # << >> THEN Atoi(sel.inputBuffer)
    ELSE sel.currentPage * PageSizeWorkspaces + sel.selectedIndex + 1

FullListOnNoMatch ==
    /\ NoUserMatches =>
          /\ FilteredUsers(L.users, sel.searchTerm) = L.users
          /\ (pc = "useSelectedUser" /\ L.userSelection <= Len(L.users)) =>
                L.userSelection = sel.selectedIndex + 1
    /\ NoWorkspaceMatches =>
          /\ FilteredWorkspaces(L.workspaces, sel.searchTerm) = L.workspaces
          /\ pc = "grantToken" =>
                L.workspaceID = L.workspaces[WorkspacePosition].workspace_id
    /\ (InUserSelector /\ sel.searchTerm # << >> /\ ~NoUserMatches) =>
          \A i \in 1..Len(FilteredUsers(L.users, sel.searchTerm)) :
              MatchesLabel(FilteredUsers(L.users, sel.searchTerm)[i].userid, sel.searchTerm)

SearchTermKept ==
    (~sel.searchMode /\ (NoUserMatches \/ NoWorkspaceMatches)) =>
        (sel'.searchTerm = sel.searchTerm \/ sel'.searchMode)

\* C21: in the user-list and in the workspace selector, a search term that
\* matches no label (as a substring, letter case ignored) leaves the full
\* list shown and selected from, and the term stays as typed.
C21_NoMatchShowsFullList == [] FullListOnNoMatch /\ [][SearchTermKept]_vars

\* with the term "q" kept, the eleventh user of the full list was selected
C21_Witness ==
    /\ pc = "useSelectedUser" /\ NoUserMatches
    /\ L.userSelection = 11

\* C22 (as claimed): once the login process has ended, no keyboard opened by
\* a selector is still open, whichever way the selector was left.
C22_KeyboardClosedAtExit == pc = "exited" => kbd = 0

\* normal-mode states of a selector, and the two quit keys
NormalModeStates ==
    [selectedIndex : 0..2, currentPage : {0}, searchMode : {FALSE},
     searchTerm : {<< >>, << 113 >>}, inputBuffer : {<< >>, << 49 >>}]
QuitKeys == {CharEv(113), CharEv(81)}

QuitKeyExits ==
    \A s \in NormalModeStates, ev \in QuitKeys :
        /\ \A users \in InitUserLists \ {<< >>} :
              promptUserSelectionStep(users, s, ev).kind = "exit"
        /\ selectScopeOrWorkspaceStep(s, ev).kind = "exit"
        /\ \A ws \in WsLists \ {<< >>} :
              selectWorkspaceOnlyStep(ws, s, ev).kind = "exit"

CancelledRunIsOver ==
    /\ QuitKeyExits
    /\ failure = "Cancelled" =>
          /\ pc = "exited" /\ exitCode # 0
          /\ ~UsersChanged /\ appFile = start.app

CancelStep ==
    /\ failure' = "Cancelled" /\ failure # "Cancelled" =>
          /\ pc \in {"promptUserSelection", "scopeSelect", "wsSelect"}
          /\ pc' = "exited" /\ exitCode' = 1
          /\ rpcLog' = rpcLog /\ cacheFile' = cacheFile /\ appFile' = appFile
    /\ failure = "Cancelled" => (rpcLog' = << >> /\ runs' = runs + 1)

\* C23: 'q' or 'Q' in normal mode of the user-list, the scope or the
\* workspace selector ends the login process with a non-zero exit status; the
\* step makes no remote call and writes nothing, and nothing follows it in
\* that process.
C23_QuitCancelsLogin == [] CancelledRunIsOver /\ [][CancelStep]_vars

\* cancelled in the workspace selector, after the remote calls before it
C23_Witness ==
    /\ failure = "Cancelled" /\ Succeeded("whoAmI") /\ L.roleType = "WORKSPACE_MEMBER"

\* position of each remote call in the order the specification gives
CallRank(name) ==
    CASE name = "resolveDomain" -> 1
      [] name = "issueToken" -> 2
      [] name = "whoAmI" -> 3
      [] name = "listWorkspaces" -> 4
      [] OTHER -> 5

\* C24 (as claimed): the remote calls of a run are made in the order
\* resolveDomain, issueToken, whoAmI, listWorkspaces, grantToken, and
\* listWorkspaces is called only after whoAmI has returned the role.
C24_CallsInSpecifiedOrder ==
    /\ \A i, j \in 1..Len(rpcLog) :
          i < j => CallRank(rpcLog[i].call) < CallRank(rpcLog[j].call)
    /\ Called("listWorkspaces") => Succeeded("whoAmI")

\* the entries of the current environment saved for the user of this run
SavedEntries ==
    {i \in 1..Len(cacheFile.envs[L.currentEnv].users) :
        cacheFile.envs[L.currentEnv].users[i].userid = L.userID}

\* C25: after a successful user login the environment's entry of the user
\* holds an encryption of the password sent to issueToken and the access
\* token grantToken returned, not the one issueToken returned; grantToken
\* was called with the refresh token issueToken returned.
C25_SavedEntryHoldsGrantedToken ==
    /\ \A i \in 1..Len(rpcLog) :
          rpcLog[i].call = "grantToken" =>
              /\ rpcLog[i].args.token = RefreshTok
              /\ \E j \in 1..(i - 1) : rpcLog[j].call = "issueToken" /\ rpcLog[j].ok
    /\ (UserLogin /\ UsersChanged) =>
          /\ Cardinality(SavedEntries) = 1
          /\ \A i \in SavedEntries :
                LET entry == cacheFile.envs[L.currentEnv].users[i]
                IN  /\ entry.token = TokenWithExp(now + GrantTimeout)
                    /\ entry.token # AccessTok
                    /\ \E j \in 1..Len(rpcLog) :
                          /\ rpcLog[j].call = "issueToken" /\ rpcLog[j].ok
                          /\ rpcLog[j].args.userID = entry.userid
                          /\ decrypt(entry.password, keyring, RndOk).val =
                                rpcLog[j].args.password

\* a cached user was logged in again with the stored password
C25_Witness ==
    /\ UserLogin /\ UsersChanged /\ L.pwPrompts = 0 /\ L.credPrompts = 0
    /\ L.scope = "WORKSPACE"

\* a key in normal mode that switched the selector to search mode: '/'
SlashStep ==
    /\ pc \in {"promptUserSelection", "wsSelect"}
    /\ ~sel.searchMode /\ sel'.searchMode

\* C26 (as claimed): the state that results from '/' in normal mode has an
\* empty search term and both the page index and the cursor at 0.
C26_SlashResetsPageAndCursor ==
    [][SlashStep => /\ sel'.searchTerm = << >>
                    /\ sel'.currentPage = 0
                    /\ sel'.selectedIndex = 0]_vars

\* the rows of the list shown on the current page, as 0-based positions in
\* the shown list
UserPageRows ==
    LET total == Len(FilteredUsers(L.users, sel.searchTerm))
        first == sel.currentPage * PageSizeUsers
        last == IF first + PageSizeUsers > total THEN total ELSE first + PageSizeUsers
    IN  first..(last - 1)

WorkspacePageRows ==
    LET total == Len(FilteredWorkspaces(L.workspaces, sel.searchTerm))
        first == sel.currentPage * PageSizeWorkspaces
        last == IF first + PageSizeWorkspaces > total
                THEN total ELSE first + PageSizeWorkspaces
    IN  first..(last - 1)

WorkspaceCursorOnPage ==
    (pc = "wsSelect" /\ ~sel.searchMode) =>
        sel.currentPage * PageSizeWorkspaces + sel.selectedIndex \in WorkspacePageRows

UserCursorOnPage ==
    (pc = "promptUserSelection" /\ ~sel.searchMode) =>
        \/ sel.selectedIndex \in UserPageRows
        \/ sel.selectedIndex = Len(FilteredUsers(L.users, sel.searchTerm))

\* C27 (as claimed): in normal mode the position Enter would resolve is an
\* item shown on the current page or, in the user list, the add-new row one
\* past the last item.
C27_CursorStaysOnPage == WorkspaceCursorOnPage /\ UserCursorOnPage

\* what Enter resolves in the user list: the absolute position page*pageSize
\* + cursor, the cursor being selectedIndex - page*pageSize
UserEnterResult ==
    LET shown == FilteredUsers(L.users, sel.searchTerm)
        cursor == sel.selectedIndex - sel.currentPage * PageSizeUsers
        position == sel.currentPage * PageSizeUsers + cursor
    IN  IF position = Len(shown)
        THEN Len(L.users) + 1
        ELSE CHOOSE i \in 1..Len(L.users) : L.users[i] = shown[position + 1]

WorkspaceEnterResult ==
    FilteredWorkspaces(L.workspaces, sel.searchTerm)
        [sel.currentPage * PageSizeWorkspaces + sel.selectedIndex + 1].workspace_id

\* C28: Enter in normal mode with an empty numeric buffer returns the item at
\* position page*pageSize + cursor of the shown list, as its position in the
\* original user list or as its workspace id; the user list returns the
\* add-new value len(users)+1 exactly when the position is one past the last
\* shown item.
C28_EnterResolvesAbsoluteIndex ==
    /\ (pc = "promptUserSelection" /\ ~sel.searchMode) =>
          /\ sel.selectedIndex >= sel.currentPage * PageSizeUsers
          /\ sel.selectedIndex <= Len(FilteredUsers(L.users, sel.searchTerm))
          /\ promptUserSelectionStep(L.users, sel, KeyEv("Enter")) =
                [kind |-> "return", value |-> UserEnterResult]
    /\ pc = "useSelectedUser" =>
          /\ ~sel.searchMode /\ L.userSelection = UserEnterResult
          /\ L.userSelection = Len(L.users) + 1 <=>
                sel.selectedIndex = Len(FilteredUsers(L.users, sel.searchTerm))
    /\ (pc = "wsSelect" /\ ~sel.searchMode /\ sel.inputBuffer = << >>) =>
          selectWorkspaceOnlyStep(L.workspaces, sel, KeyEv("Enter")) =
              [kind |-> "return", value |-> WorkspaceEnterResult]
    /\ (pc = "grantToken" /\ sel.inputBuffer = << >>) =>
          /\ ~sel.searchMode /\ L.workspaceID = WorkspaceEnterResult
          /\ \E i \in 1..Len(L.workspaces) : L.workspaces[i].workspace_id = L.workspaceID

\* with the search "D" showing dev3, Dev6, dev9, the second row was chosen
C28_Witness ==
    /\ pc = "useSelectedUser" /\ sel.searchTerm = << 68 >>
    /\ sel.selectedIndex = 1 /\ L.userSelection = 6

WorkspaceNormalMode == pc = "wsSelect" /\ ~sel.searchMode

ShownWorkspaces == FilteredWorkspaces(L.workspaces, sel.searchTerm)

\* the number a buffer of digits stands for
BufferNumber(buf) == Atoi(buf)

NumberIsValid(buf) ==
    /\ buf # << >>
    /\ BufferNumber(buf) >= 1 /\ BufferNumber(buf) <= Len(ShownWorkspaces)

\* what a digit key and Enter do to the number typed so far
NumberKeys ==
    WorkspaceNormalMode =>
       /\ \A d \in 48..57 :
             selectWorkspaceOnlyStep(L.workspaces, sel, CharEv(d)) =
                 [kind |-> "continue",
                  sel |-> [sel EXCEPT !.inputBuffer = Append(@, d)]]
       /\ sel.inputBuffer # << >> =>
             selectWorkspaceOnlyStep(L.workspaces, sel, KeyEv("Enter")) =
                 IF NumberIsValid(sel.inputBuffer)
                 THEN [kind |-> "return",
                       value |-> ShownWorkspaces[BufferNumber(sel.inputBuffer)].workspace_id]
                 ELSE [kind |-> "continue", sel |-> [sel EXCEPT !.inputBuffer = << >>]]

\* a selection made with a number typed is the workspace of that number
NumberSelects ==
    (pc = "grantToken" /\ sel.inputBuffer # << >>) =>
       /\ NumberIsValid(sel.inputBuffer)
       /\ L.workspaceID = ShownWorkspaces[BufferNumber(sel.inputBuffer)].workspace_id

\* a step that leaves the selector running grows the number by one digit,
\* shortens it by one, clears it, or keeps it
NumberStep ==
    (WorkspaceNormalMode /\ pc' = "wsSelect") =>
       \/ sel'.inputBuffer = sel.inputBuffer
       \/ \E d \in DigitChars : sel' = [sel EXCEPT !.inputBuffer = Append(@, d)]
       \/ /\ sel.inputBuffer # << >>
          /\ sel' = [sel EXCEPT !.inputBuffer = SubSeq(@, 1, Len(@) - 1)]
       \/ /\ ~NumberIsValid(sel.inputBuffer)
          /\ sel' = [sel EXCEPT !.inputBuffer = << >>]

\* C29: in the workspace selector digits typed in normal mode accumulate in the
\* number buffer; Enter with a number typed returns the workspace at that
\* 1-based position of the shown list whatever the page and the cursor, and a
\* number outside 1..len(shown) selects nothing, clears the buffer and leaves
\* the selector running.
C29_NumberSelectsByIndex ==
    [] (NumberKeys /\ NumberSelects) /\ [][NumberStep]_vars

\* "17" was typed on the first page of 31 workspaces and chose the 17th
C29_Witness ==
    /\ pc = "grantToken" /\ sel.inputBuffer = << 49, 55 >>
    /\ sel.currentPage = 0 /\ L.workspaceID = "17"

WorkspacePageCount ==
    (Len(ShownWorkspaces) + PageSizeWorkspaces - 1) \div PageSizeWorkspaces

PageInRange ==
    pc = "wsSelect" => sel.currentPage \in 0..(WorkspacePageCount - 1)

PageKeysWrap ==
    WorkspaceNormalMode =>
       LET next == selectWorkspaceOnlyStep(L.workspaces, sel, CharEv(108))
           prev == selectWorkspaceOnlyStep(L.workspaces, sel, CharEv(104))
           last == WorkspacePageCount - 1
       IN  /\ next = [kind |-> "continue",
                      sel |-> [sel EXCEPT
                                 !.currentPage = IF @ = last THEN 0 ELSE @ + 1,
                                 !.selectedIndex = 0]]
           /\ prev = [kind |-> "continue",
                      sel |-> [sel EXCEPT
                                 !.currentPage = IF @ = 0 THEN last ELSE @ - 1,
                                 !.selectedIndex = 0]]

\* a step in normal mode that changes the page goes to a neighbouring page,
\* the first and the last page being neighbours, and puts the cursor on row 0
PageStep ==
    (WorkspaceNormalMode /\ pc' = "wsSelect" /\ ~sel'.searchMode
       /\ sel'.currentPage # sel.currentPage) =>
       /\ sel'.selectedIndex = 0
       /\ sel'.currentPage \in
             {(sel.currentPage + 1) % WorkspacePageCount,
              (sel.currentPage + WorkspacePageCount - 1) % WorkspacePageCount}

\* C30: in the workspace selector next-page on the last page goes to page 0
\* and previous-page on page 0 goes to the last page, each with the cursor
\* back on row 0, and the page stays in 0..pageCount-1.
C30_PagesWrapAround ==
    [] (PageInRange /\ PageKeysWrap) /\ [][PageStep]_vars

\* the last of the three pages of 31 workspaces, cursor on row 0
C30_Witness ==
    /\ WorkspaceNormalMode /\ Len(L.workspaces) = 31 /\ sel.searchTerm = << >>
    /\ sel.currentPage = 2 /\ sel.selectedIndex = 0

UserNormalMode == pc = "promptUserSelection" /\ ~sel.searchMode

ShownUsers == FilteredUsers(L.users, sel.searchTerm)

UserPageCount == (Len(ShownUsers) + PageSizeUsers - 1) \div PageSizeUsers

\* what the page keys do at a normal-mode state of the user list
UserPageKeysClamp ==
    UserNormalMode =>
       LET next == promptUserSelectionStep(L.users, sel, CharEv(108))
           prev == promptUserSelectionStep(L.users, sel, CharEv(104))
           last == UserPageCount - 1
       IN  /\ sel.currentPage \in 0..last
           /\ next = [kind |-> "continue",
                      sel |-> IF sel.currentPage = last THEN sel
                              ELSE [sel EXCEPT
                                      !.currentPage = @ + 1,
                                      !.selectedIndex = (sel.currentPage + 1) * PageSizeUsers]]
           /\ prev = [kind |-> "continue",
                      sel |-> IF sel.currentPage = 0 THEN sel
                              ELSE [sel EXCEPT
                                      !.currentPage = @ - 1,
                                      !.selectedIndex = (sel.currentPage - 1) * PageSizeUsers]]

\* a normal-mode step that changes the page goes one page up or down and puts
\* the cursor on the first row of the new page
UserPageStep ==
    (UserNormalMode /\ pc' = "promptUserSelection" /\ ~sel'.searchMode
       /\ sel'.currentPage # sel.currentPage) =>
       /\ sel'.currentPage \in {sel.currentPage + 1, sel.currentPage - 1}
       /\ sel'.currentPage \in 0..(UserPageCount - 1)
       /\ sel'.selectedIndex = sel'.currentPage * PageSizeUsers

\* C31: in the user list next-page on the last page and previous-page on page
\* 0 change neither the page nor the cursor, and a page change puts the cursor
\* on the first item of the new page.
C31_UserPagesClamp ==
    [] UserPageKeysClamp /\ [][UserPageStep]_vars

\* the second and last page of 11 users with the cursor on its first item
C31_Witness ==
    /\ UserNormalMode /\ Len(L.users) = 11 /\ sel.searchTerm = << >>
    /\ sel.currentPage = 1 /\ sel.selectedIndex = 10

InSearchMode == pc \in {"promptUserSelection", "wsSelect"} /\ sel.searchMode

\* the running selector's reaction to key ev
SelectorStep(ev) ==
    IF pc = "promptUserSelection"
    THEN promptUserSelectionStep(L.users, sel, ev)
    ELSE selectWorkspaceOnlyStep(L.workspaces, sel, ev)

\* the list the running selector shows for search term t
ShownFor(t) ==
    IF pc = "promptUserSelection"
    THEN FilteredUsers(L.users, t) ELSE FilteredWorkspaces(L.workspaces, t)

FullList == IF pc = "promptUserSelection" THEN L.users ELSE L.workspaces

EscapeClearsSearch ==
    InSearchMode =>
       LET r == SelectorStep(KeyEv("Esc"))
       IN  /\ r.kind = "continue"
           /\ r.sel = [sel EXCEPT !.searchMode = FALSE, !.searchTerm = << >>,
                                  !.currentPage = 0, !.selectedIndex = 0]
           /\ ShownFor(r.sel.searchTerm) = FullList

\* a step out of search mode keeps the selector running with page and cursor
\* at 0, and either clears the term (Escape) or keeps it (Enter)
LeaveSearchStep ==
    (InSearchMode /\ ~sel'.searchMode) =>
       /\ pc' = pc
       /\ sel'.currentPage = 0 /\ sel'.selectedIndex = 0
       /\ sel'.searchTerm \in {<< >>, sel.searchTerm}

\* C32: Escape in search mode leaves search mode and clears the search term:
\* the list shown next is the full list, with page and cursor at 0.
C32_EscapeRestoresFullList ==
    [] EscapeClearsSearch /\ [][LeaveSearchStep]_vars

\* the workspace search "D" shows fewer than the 31 workspaces, and Escape
\* pressed there gives normal mode with all 31 shown
C32_Witness ==
    /\ pc = "wsSelect" /\ sel.searchMode /\ sel.searchTerm = << 68 >>
    /\ Len(ShownFor(sel.searchTerm)) < 31
    /\ ~SelectorStep(KeyEv("Esc")).sel.searchMode
    /\ Len(ShownFor(SelectorStep(KeyEv("Esc")).sel.searchTerm)) = 31

EnterKeepsSearch ==
    InSearchMode =>
       LET r == SelectorStep(KeyEv("Enter"))
       IN  /\ r.kind = "continue"
           /\ r.sel = [sel EXCEPT !.searchMode = FALSE,
                                  !.currentPage = 0, !.selectedIndex = 0]
           /\ ShownFor(r.sel.searchTerm) = ShownFor(sel.searchTerm)

\* no step taken in search mode returns a selection or ends the run, except
\* for a failed read of the keyboard
SearchNeverSelects ==
    InSearchMode => (pc' = pc \/ failure' = "KeyboardRead")

\* C33: Enter in search mode returns to normal mode with the search term and
\* its filter kept and page and cursor at 0, and returns no selection.
C33_EnterCommitsFilter ==
    [] EnterKeepsSearch /\ [][SearchNeverSelects]_vars

\* normal mode with the term "D" still filtering the 11 users down to three
C33_Witness ==
    /\ pc = "promptUserSelection" /\ ~sel.searchMode /\ sel.searchTerm = << 68 >>
    /\ Len(L.users) = 11 /\ Len(ShownFor(sel.searchTerm)) = 3
    /\ sel.currentPage = 0 /\ sel.selectedIndex = 0

\* printable characters: the command letters, '/', the digits, and others
PrintableChars == {113, 81, 104, 106, 107, 108, 47} \cup (48..57) \cup {68, 126}

TextOnlyInSearch ==
    InSearchMode =>
       /\ \A c \in PrintableChars :
             SelectorStep(CharEv(c)) =
                [kind |-> "continue",
                 sel |-> [sel EXCEPT !.searchTerm = Append(@, c),
                                     !.currentPage = 0, !.selectedIndex = 0]]
       /\ \A k \in {"Esc", "Backspace", "Enter"} :
             LET r == SelectorStep(KeyEv(k))
             IN  /\ r.kind = "continue"
                 /\ r.sel.currentPage = 0 /\ r.sel.selectedIndex = 0
                 /\ r.sel.inputBuffer = sel.inputBuffer
       /\ SelectorStep(KeyEv("Backspace")).sel.searchTerm =
             (IF sel.searchTerm = << >> THEN << >>
              ELSE SubSeq(sel.searchTerm, 1, Len(sel.searchTerm) - 1))

\* a step taken in search mode keeps the selector running and the numeric
\* buffer as it is, and leaves page and cursor at 0
SearchKeyStep ==
    (InSearchMode /\ failure' # "KeyboardRead") =>
       /\ pc' = pc /\ exitCode' = exitCode
       /\ sel'.inputBuffer = sel.inputBuffer
       /\ sel'.currentPage = 0 /\ sel'.selectedIndex = 0
       /\ \/ sel'.searchTerm = sel.searchTerm
          \/ sel'.searchTerm = << >>
          \/ \E c \in SearchChars : sel'.searchTerm = Append(sel.searchTerm, c)
          \/ sel.searchTerm = Append(sel'.searchTerm, sel.searchTerm[Len(sel.searchTerm)])

\* C38: in search mode every printable key, the command keys and the digits
\* included, is appended to the search term and cancels, moves, selects or
\* changes the numeric buffer not at all; Escape, Backspace and Enter are the
\* only keys interpreted; every search-mode key puts page and cursor at 0.
C38_SearchModeTakesTextOnly ==
    [] TextOnlyInSearch /\ [][SearchKeyStep]_vars

\* 'q' typed in a search of the workspace list became the search term; the
\* digit typed before the search is still in the buffer
C38_Witness ==
    /\ pc = "wsSelect" /\ sel.searchMode /\ sel.searchTerm = << 113 >>
    /\ sel.inputBuffer = << 49 >> /\ exitCode = -1

\* C34 (as claimed): the workspace selector is entered with at least one
\* workspace on every path, the one where listWorkspaces failed included, so
\* the page count is at least 1 and the modulo by it never divides by zero.
C34_SelectorHasWorkspaces ==
    /\ pc \in {"selectWorkspaceOnly", "wsSelect"} => Len(L.workspaces) >= 1
    /\ failure # "Panic"

\* C35 (as claimed): the keyboard is never opened while it is open: at most
\* one selector holds it, also when a DOMAIN_ADMIN chooses Workspaces and the
\* workspace selector is started.
C35_KeyboardOpenedOnce ==
    /\ kbd <= 1
    /\ pc = "selectWorkspaceOnly" => kbd = 0

\* the workspace Enter chose in the workspace selector
ChosenWorkspace ==
    FilteredWorkspaces(L.workspaces, sel.searchTerm)[WorkspacePosition]

\* C36 (as claimed): once a workspace w was selected, by a DOMAIN_ADMIN who
\* chose Workspaces or by any other role, grantToken is called with scope
\* WORKSPACE and w's id, whatever the id (the id "0" included); scope DOMAIN
\* is sent only when Domain was chosen.
C36_SelectedWorkspaceIsGranted ==
    \A i \in 1..Len(rpcLog) :
        rpcLog[i].call = "grantToken" =>
            IF L.domainChosen
            THEN rpcLog[i].args.scope = "DOMAIN"
            ELSE /\ rpcLog[i].args.scope = "WORKSPACE"
                 /\ rpcLog[i].args.workspace_id = ChosenWorkspace.workspace_id

\* the position in the shown list under the cursor of the workspace selector
WorkspaceCursorIndex == sel.currentPage * PageSizeWorkspaces + sel.selectedIndex

\* C37: at every normal-mode state of the workspace selector over a non-empty
\* list the page is below the page count and page*pageSize + cursor is a
\* valid index of the shown list, so Enter with an empty numeric buffer
\* returns a workspace.
C37_WorkspaceCursorIsValid ==
    (WorkspaceNormalMode /\ Len(L.workspaces) >= 1) =>
       /\ sel.currentPage >= 0 /\ sel.currentPage < WorkspacePageCount
       /\ sel.selectedIndex >= 0
       /\ WorkspaceCursorIndex < Len(ShownWorkspaces)
       /\ sel.inputBuffer = << >> =>
             LET r == selectWorkspaceOnlyStep(L.workspaces, sel, KeyEv("Enter"))
             IN  /\ r.kind = "return"
                 /\ \E i \in 1..Len(L.workspaces) : L.workspaces[i].workspace_id = r.value

\* the cursor on the only row of the last page of 31 workspaces (index 30),
\* reached with 'h' from the first page; 'j' does not move it further
C37_Witness ==
    /\ WorkspaceNormalMode /\ Len(L.workspaces) = 31 /\ sel.searchTerm = << >>
    /\ sel.inputBuffer = << >>
    /\ WorkspaceCursorIndex = 30
    /\ selectWorkspaceOnlyStep(L.workspaces, sel, CharEv(106)).sel = sel

(***************************************************************************)
(* Properties of the config commands (ConfigSpec)                          *)
(***************************************************************************)

\* environments.<e> is set in the application tier or in the cache tier
EnvKnown(e) == appFile.envs[e].isSet \/ cacheFile.envs[e].isSet

\* C39 (as claimed): after any sequence of init, switch and remove commands
\* with any answers, the current environment of the application tier is empty
\* or names an environment present in a tier; a switch to a name present in
\* neither tier fails and leaves the current environment as it was.
C39_CurrentEnvironmentIsKnown ==
    /\ appFile.environment # << >> =>
          /\ appFile.environment \in ConfigEnvNames
          /\ EnvKnown(appFile.environment)
    /\ \A e \in ConfigEnvNames, response \in Answers, wr \in Writable :
          ~EnvKnown(e) =>
             LET r == envCmd(appFile, cacheFile, e, << >>, response, wr)
             IN  /\ r.msg \in {"NotFound", "LoadConfig"}
                 /\ r.app.environment = appFile.environment

\* C40 (as claimed): when the endpoint command has set service S for the
\* current environment, getBaseURL (application tier first, then cache tier)
\* returns the endpoint just set, for application and for user environments.
C40_EndpointCommandIsResolved ==
    \A service \in Services \ {<< >>}, wr \in Writable :
        LET r == configEndpointCmd(appFile, cacheFile, service, wr)
        IN  r.msg = "Updated" =>
               /\ r.cache.envs[r.app.environment].endpoint \in
                     {ServiceEndpoint(service, p) : p \in {<< 100, 101, 118 >>,
                                                           << 115, 116, 103 >>}}
               /\ getBaseURL(r.app, r.cache) =
                     Ok(r.cache.envs[r.app.environment].endpoint)
====
